---- MODULE Spec2Model ----
(***************************************************************************)
(* Model of the price-aggregation engine of meta-aggregation-api:          *)
(* MetaAggregationService (get_swap_meta_price, get_provider_price,        *)
(* get_approve_costs_per_provider, get_token_allowance,                    *)
(* choose_best_provider), the provider adapters' get_swap_price, and the   *)
(* arithmetic of Python's decimal module that the ranking is computed in.  *)
(***************************************************************************)
EXTENDS Integers, Sequences, FiniteSets, TLC

(***************************************************************************)
(* Bounds of the model.                                                    *)
(***************************************************************************)
\* Significant digits kept by a Decimal operation.  Python's default context
\* keeps 28; the model keeps fewer so that coefficients stay small.
DecimalPrec == 2
\* Width of an unsigned chain integer.  The chain has 256 bits; the model
\* keeps fewer.
UintBits == 3
\* Largest decimals value of a token in the model (a real ERC-20 has up to 18).
MaxDecimals == 1

(***************************************************************************)
(* Integer helpers.                                                        *)
(***************************************************************************)
RECURSIVE Pow10(_)
Pow10(n) == IF n <= 0 THEN 1 ELSE 10 * Pow10(n - 1)

RECURSIVE Pow2(_)
Pow2(n) == IF n <= 0 THEN 1 ELSE 2 * Pow2(n - 1)

Abs(n) == IF n < 0 THEN -n ELSE n

RECURSIVE Digits(_)
Digits(n) == IF n < 10 THEN 1 ELSE 1 + Digits(n \div 10)

(***************************************************************************)
(* decimal.Decimal: a value m * 10^e.  Construction from an integer or a   *)
(* string is exact; every arithmetic result is rounded to the context      *)
(* precision with ROUND_HALF_EVEN.                                         *)
(***************************************************************************)
Dec(m, e) == [m |-> m, e |-> e]

DecFromInt(n) == Dec(n, 0)

\* n >= 0 with its last k digits dropped, rounding half to even.
RoundHalfEven(n, k) ==
    LET q    == n \div Pow10(k)
        r    == n % Pow10(k)
        half == 5 * Pow10(k - 1)
    IN  IF r > half \/ (r = half /\ q % 2 = 1) THEN q + 1 ELSE q

DecRound(x) ==
    LET a == Abs(x.m)
        d == Digits(a)
    IN  IF d <= DecimalPrec
        THEN x
        ELSE LET k == d - DecimalPrec
                 q == RoundHalfEven(a, k)
             IN  Dec(IF x.m < 0 THEN -q ELSE q, x.e + k)

MinExp(x, y) == IF x.e < y.e THEN x.e ELSE y.e

\* The coefficient of x at exponent e <= x.e.
Aligned(x, e) == x.m * Pow10(x.e - e)

DecMul(x, y) == DecRound(Dec(x.m * y.m, x.e + y.e))

DecAdd(x, y) ==
    LET e == MinExp(x, y) IN DecRound(Dec(Aligned(x, e) + Aligned(y, e), e))

DecSub(x, y) ==
    LET e == MinExp(x, y) IN DecRound(Dec(Aligned(x, e) - Aligned(y, e), e))

\* x / Decimal(10 ** d)
DecDivPow10(x, d) == DecRound(Dec(x.m, x.e - d))

DecGreater(x, y) ==
    LET e == MinExp(x, y) IN Aligned(x, e) > Aligned(y, e)

(***************************************************************************)
(* Static configuration.                                                   *)
(***************************************************************************)
\* Absent value (Python's None).
NULL == "None"

\* config.NATIVE_TOKEN_ADDRESS, the wrapped native token of the chain, and
\* two ordinary ERC-20 tokens.
NATIVE_TOKEN_ADDRESS == "0xeeee"
WRAPPED_NATIVE == "0xwnative"
TOKEN_A == "0xtokena"
TOKEN_B == "0xtokenb"

\* The enabled provider descriptors in the order of ProvidersConfig.values().
ProviderOrder == <<"one_inch", "zero_x", "paraswap">>

Providers == {ProviderOrder[i] : i \in 1..Len(ProviderOrder)}

\* Chain ids of the model: on chain 1 every provider has a market-order
\* spender, on chain 56 paraswap has none, chain 5 is in no descriptor.
ChainIds == {1, 56, 5}

\* The spenders of the descriptors: provider -> chain id -> market_order
\* spender address, NULL for a chain entry without one.  A chain missing from
\* the inner domain is a chain the descriptor does not list.
ProvidersConfig ==
    [p \in Providers |->
        IF p = "paraswap"
        THEN (1 :> "spender_paraswap")
        ELSE (1 :> ("spender_" \o p)) @@ (56 :> ("spender_" \o p))]

\* ProvidersConfig.get_providers_on_chain(chain_id)['market_order'] as the
\* sequence of provider names, in the order of ProvidersConfig.values().
\* (The descriptors of the model carry no limit_order spender, so the call
\* raises ValueError exactly when this sequence is empty.)
MarketOrderProviders(chain_id) ==
    SelectSeq(ProviderOrder,
              LAMBDA p : chain_id \in DOMAIN ProvidersConfig[p]
                         /\ ProvidersConfig[p][chain_id] # NULL)

\* the 'address' of the market_order entry of a provider on a chain
SpenderAddress(p, chain_id) == ProvidersConfig[p][chain_id]

\* ProviderRegistry.get(name) is not None
Registered == {"one_inch", "zero_x", "paraswap"}

\* ChainModel.native_token.decimals of the chains of the model
NativeDecimals == MaxDecimals

\* 2**256 - 1 at the width of the model
MaxUint == Pow2(UintBits) - 1

(***************************************************************************)
(* MetaAggregationService.choose_best_provider.                            *)
(***************************************************************************)
\* profit of one price response, in Decimal arithmetic
Profit(price_response, approve_cost, native_decimals, buy_token_decimals, buy_token_price) ==
    LET tx_gas_cost      == DecMul(DecFromInt(price_response.gas),
                                   DecFromInt(price_response.gas_price))
        approve_gas_cost == DecMul(DecFromInt(approve_cost),
                                   DecFromInt(price_response.gas_price))
        sum_cost         == DecDivPow10(DecAdd(tx_gas_cost, approve_gas_cost),
                                        native_decimals)
        buy_token_amount == DecDivPow10(DecFromInt(price_response.buy_amount),
                                        buy_token_decimals)
        buy_token_in_native == DecMul(buy_token_amount, buy_token_price)
    IN  DecSub(buy_token_in_native, sum_cost)

\* prices is the dict in insertion order: a sequence of price responses, each
\* with its provider; approve_costs is a function on the providers that have
\* an entry.  The result is the index of the winner in prices, or 0 with
\* raised = "KeyError" when a provider of prices has no approve cost.
choose_best_provider(prices, approve_costs, native_decimals, buy_token_decimals, buy_token_price) ==
    LET profit(i) == Profit(prices[i], approve_costs[prices[i].provider],
                            native_decimals, buy_token_decimals, buy_token_price)
        best[i \in 0..Len(prices)] ==
            IF i = 0 THEN 0
            ELSE IF best[i - 1] = 0 \/ DecGreater(profit(i), profit(best[i - 1]))
                 THEN i
                 ELSE best[i - 1]
    IN  IF \E i \in 1..Len(prices) : prices[i].provider \notin DOMAIN approve_costs
        THEN [raised |-> "KeyError", index |-> 0, provider |-> NULL]
        ELSE [raised |-> NULL, index |-> best[Len(prices)],
              provider |-> IF Len(prices) = 0 THEN NULL
                           ELSE prices[best[Len(prices)]].provider]

(***************************************************************************)
(* State.                                                                  *)
(***************************************************************************)
VARIABLES
    op,              \* the operation that runs
    pc,              \* where the operation stands
    request,         \* its arguments
    gas_price,       \* the gas price in use: 0 is None, -1 a failed lookup
    approve_task,    \* the get_approve_costs_per_provider coroutine
    decimals_task,   \* the get_decimals_for_native_and_buy_token task
    buy_price_task,  \* the DexGuru.get_token_finance task
    prices_tasks,    \* provider -> its get_swap_price task
    calls,           \* chain calls made: allowance reads and approve estimations;
                     \* HTTP requests sent by an adapter's get_swap_quote
    locals,          \* allowance and approve_cost of get_provider_price
    gas,             \* the gas service: its cache, the clock, its last call
    result           \* what the operation returned or raised

vars == <<op, pc, request, gas_price, approve_task, decimals_task,
          buy_price_task, prices_tasks, calls, locals, gas, result>>

(***************************************************************************)
(* Values of the environment: what the chain, the token-info service and   *)
(* the upstream aggregators may answer.                                    *)
(***************************************************************************)
SellAmounts == {1, MaxUint}

AllowanceValues == {0, 1, MaxUint}

ApproveGasValues == {4}

BaseGasPrices == {2}

TokenDecimals == {0, MaxDecimals}

\* DexGuru price_eth values, as Decimal(str(price))
TokenPrices == {Dec(0, 0), Dec(1, 0)}

NoQuote == [buy_amount |-> 0, gas |-> 0, gas_price |-> 0]

\* What a provider may quote for a request made with gas price g: the three
\* adapters of the model report the gas price they were given (one_inch and
\* paraswap copy the argument, zero_x copies the upstream's echo of it).
QuoteValues(p, g) ==
    IF p = "one_inch" THEN {[buy_amount |-> 100, gas |-> 1, gas_price |-> g]}
    ELSE IF p = "zero_x" THEN {[buy_amount |-> 103, gas |-> 1, gas_price |-> g]}
    ELSE {[buy_amount |-> 96, gas |-> 1, gas_price |-> g]}

(***************************************************************************)
(* Results and errors.                                                     *)
(***************************************************************************)
NoResult == [kind |-> "none", error |-> NULL, message |-> NULL, items |-> <<>>]

Raise(error, message) ==
    [kind |-> "raise", error |-> error, message |-> message, items |-> <<>>]

Return(items) ==
    [kind |-> "return", error |-> NULL, message |-> NULL, items |-> items]

\* create_app's exception handlers: a BaseAggregationProviderError answers
\* with the code of its owner class, a pydantic ValidationError with 422, any
\* other exception with 500.
HttpStatus(error) ==
    CASE error \in {"EstimationError", "UserBalanceError", "AllowanceError",
                    "TokensError"} -> 400
      [] error \in {"AggregationProviderError", "InsufficientLiquidityError",
                    "PriceError", "ProviderTimeoutError"} -> 409
      [] error \in {"ValidationFailedError", "ParseResponseError",
                    "ProviderNotFound", "SpenderAddressNotFound"} -> 417
      [] error = "ValidationError" -> 422
      [] OTHER -> 500

(***************************************************************************)
(* Tasks.                                                                  *)
(***************************************************************************)
\* a get_swap_price task: its state, the quote it ended with, and the buy
\* token and the gas price its coroutine was called with
NoTask == [state |-> "none", quote |-> NoQuote, buy_token |-> NULL,
           gas_price |-> 0]

\* costs is approve_costs_per_provider; allowance keeps what
\* get_token_allowance returned for a provider (-1: not asked yet)
IdleApprove == [state |-> "none", idx |-> 1, providers |-> <<>>,
                costs |-> [p \in Providers |-> 0],
                allowance |-> [p \in Providers |-> -1]]

IdleDecimals == [state |-> "none", native |-> 0, buy |-> 0]

IdleBuyPrice == [state |-> "none", token |-> NULL, price |-> Dec(0, 0)]

NoCalls == [allowance |-> [p \in Providers |-> 0],
            approve   |-> [p \in Providers |-> 0],
            spender   |-> [p \in Providers |-> NULL],
            quote_requests |-> 0]

NoLocals == [allowance |-> -1, approve_cost |-> 0]

\* the gas service before its first call: CacheConfig.CACHE is 'memory'
NoGas == [config   |-> "memory",
          now      |-> 0,
          cache    |-> <<>>,
          hit      |-> FALSE,
          attempts |-> 0,
          runs     |-> [eip1559 |-> 0, legacy |-> 0]]

Finished(task) == task.state \in {"done", "failed"}

SeqRange(q) == {q[i] : i \in 1..Len(q)}

(***************************************************************************)
(* MetaAggregationService.get_token_allowance: the allowance, and whether  *)
(* the ERC-20 allowance function of the chain was called for it.           *)
(* on_chain is what the chain answers when it is asked.                    *)
(***************************************************************************)
\* get_token_allowance without the shortcut for a missing owner
get_token_allowance_owner_unchecked(token_address, owner_address, on_chain) ==
    IF token_address = NATIVE_TOKEN_ADDRESS
    THEN [read |-> FALSE, allowance |-> MaxUint]
    ELSE [read |-> TRUE, allowance |-> on_chain]

\* get_token_allowance without the shortcut for the native token
get_token_allowance_native_unchecked(token_address, owner_address, on_chain) ==
    IF owner_address = NULL
    THEN [read |-> FALSE, allowance |-> MaxUint]
    ELSE [read |-> TRUE, allowance |-> on_chain]

get_token_allowance(token_address, owner_address, on_chain) ==
    IF token_address = NATIVE_TOKEN_ADDRESS \/ owner_address = NULL
    THEN [read |-> FALSE, allowance |-> MaxUint]
    ELSE [read |-> TRUE, allowance |-> on_chain]

\* the test below with <= in place of <
NeedsApproveNonStrict(allowance, sell_amount) == allowance <= sell_amount

\* the test of get_approve_costs_per_provider and get_provider_price
NeedsApprove(allowance, sell_amount) == allowance < sell_amount

(***************************************************************************)
(* MetaAggregationService.get_approve_costs_per_provider, one iteration of *)
(* its loop per step.  Without a taker the loop has no await and runs to   *)
(* its end in one step.  A chain answer of -1 is a call that raises.       *)
(***************************************************************************)
ApproveCostsNoTaker ==
    /\ approve_task.state = "running"
    /\ request.taker_address = NULL
    /\ approve_task' = [approve_task EXCEPT
                            !.state = "done",
                            !.idx = Len(approve_task.providers) + 1,
                            !.costs = [p \in Providers |-> 0]]
    /\ UNCHANGED <<gas, op, pc, request, gas_price, decimals_task, buy_price_task,
                   prices_tasks, calls, result, locals>>

ApproveCostsIteration ==
    /\ approve_task.state = "running"
    /\ request.taker_address # NULL
    /\ LET p       == approve_task.providers[approve_task.idx]
           spender == SpenderAddress(p, request.chain_id)
           last    == approve_task.idx = Len(approve_task.providers)
       IN  \E on_chain \in AllowanceValues \cup {-1} :
           \E estimate \in ApproveGasValues \cup {-1} :
             LET got  == get_token_allowance(request.sell_token,
                                             request.taker_address, on_chain)
                 need == NeedsApprove(got.allowance, request.sell_amount)
                 read_failed == got.read /\ on_chain = -1
                 cost == IF need THEN estimate ELSE 0
             IN  /\ calls' = [calls EXCEPT
                        !.allowance[p] = @ + (IF got.read THEN 1 ELSE 0),
                        !.spender[p] = IF got.read THEN spender ELSE @,
                        !.approve[p] = @ + (IF ~read_failed /\ need THEN 1 ELSE 0)]
                 /\ approve_task' =
                        IF read_failed \/ (need /\ estimate = -1)
                        THEN [approve_task EXCEPT !.state = "failed"]
                        ELSE [approve_task EXCEPT
                                 !.costs[p] = cost,
                                 !.allowance[p] = got.allowance,
                                 !.idx = @ + 1,
                                 !.state = IF last THEN "done" ELSE "running"]
    /\ UNCHANGED <<gas, op, pc, request, gas_price, decimals_task, buy_price_task,
                   prices_tasks, result, locals>>

\* the dict the coroutine returns
ApproveCostsDict ==
    [p \in SeqRange(approve_task.providers) |-> approve_task.costs[p]]

(***************************************************************************)
(* MetaAggregationService.get_decimals_for_native_and_buy_token, called    *)
(* with the buy token as the caller gave it.  -1 is a lookup that raises.  *)
(***************************************************************************)
get_decimals_for_native_and_buy_token(buy_token, inventory_decimals) ==
    IF buy_token = NATIVE_TOKEN_ADDRESS \/ buy_token = WRAPPED_NATIVE
    THEN [state |-> "done", native |-> NativeDecimals, buy |-> NativeDecimals]
    ELSE IF inventory_decimals = -1
         THEN [state |-> "failed", native |-> 0, buy |-> 0]
         ELSE [state |-> "done", native |-> NativeDecimals,
               buy |-> inventory_decimals]

DecimalsDone ==
    /\ decimals_task.state = "running"
    /\ \E d \in TokenDecimals \cup {-1} :
         decimals_task' =
             get_decimals_for_native_and_buy_token(request.buy_token, d)
    /\ UNCHANGED <<gas, op, pc, request, gas_price, approve_task, buy_price_task,
                   prices_tasks, calls, result, locals>>

\* DexGuru.get_token_finance(chain_id, buy_token): its price_eth, or a raise.
BuyPriceDone ==
    /\ buy_price_task.state = "running"
    /\ \/ \E price \in TokenPrices :
            buy_price_task' = [buy_price_task EXCEPT !.state = "done",
                                                     !.price = price]
       \/ buy_price_task' = [buy_price_task EXCEPT !.state = "failed"]
    /\ UNCHANGED <<gas, op, pc, request, gas_price, approve_task, decimals_task,
                   prices_tasks, calls, result, locals>>

(***************************************************************************)
(* One provider's get_swap_price task ends: with a price response, with    *)
(* None (an empty upstream answer), or with an exception (an error of the  *)
(* adapter's table, a timeout, anything else).                             *)
(***************************************************************************)
ProviderPriceDone(p) ==
    /\ op = "get_swap_meta_price"
    /\ prices_tasks[p].state = "running"
    /\ \/ \E q \in QuoteValues(p, prices_tasks[p].gas_price) :
            prices_tasks' = [prices_tasks EXCEPT ![p].state = "quote",
                                                 ![p].quote = q]
       \/ prices_tasks' = [prices_tasks EXCEPT ![p].state = "returned_none"]
       \/ prices_tasks' = [prices_tasks EXCEPT ![p].state = "exception"]
    /\ UNCHANGED <<gas, op, pc, request, gas_price, approve_task, decimals_task,
                   buy_price_task, calls, result, locals>>

\* the providers get_swap_meta_price creates a price task for: every enabled
\* descriptor whose name the registry knows
QueriedProviders == SelectSeq(ProviderOrder, LAMBDA p : p \in Registered)

\* a variant of CreatePricesTasks that hands the adapters the caller's
\* gas_price argument as it came
CreatePricesTasksCallerGas(buy_token, g) ==
    [p \in Providers |->
        IF p \in SeqRange(QueriedProviders)
        THEN [NoTask EXCEPT !.state = "running", !.buy_token = buy_token,
                            !.gas_price = request.gas_price]
        ELSE NoTask]

\* prices_tasks.append(asyncio.create_task(provider_instance.get_swap_price(
\* buy_token, ..., gas_price, ...))) for each of them
CreatePricesTasks(buy_token, g) ==
    [p \in Providers |->
        IF p \in SeqRange(QueriedProviders)
        THEN [NoTask EXCEPT !.state = "running", !.buy_token = buy_token,
                            !.gas_price = g]
        ELSE NoTask]

\* {price.provider: price for price in prices_list
\*  if isinstance(price, ProviderPriceResponse)}, in insertion order
PricesDict(tasks) ==
    LET ok == SelectSeq(QueriedProviders, LAMBDA p : tasks[p].state = "quote")
    IN  [i \in 1..Len(ok) |->
            [provider   |-> ok[i],
             buy_amount |-> tasks[ok[i]].quote.buy_amount,
             gas        |-> tasks[ok[i]].quote.gas,
             gas_price  |-> tasks[ok[i]].quote.gas_price]]

(***************************************************************************)
(* MetaAggregationService.get_swap_meta_price.                             *)
(***************************************************************************)
TAKER == "0xtaker"

\* a gas price given by the caller; 0 stands for None
GivenGasPrices == {0, 3}

MetaRequests ==
    [buy_token     : {NATIVE_TOKEN_ADDRESS, TOKEN_B},
     sell_token    : {NATIVE_TOKEN_ADDRESS, TOKEN_A},
     sell_amount   : SellAmounts,
     chain_id      : ChainIds,
     gas_price     : GivenGasPrices,
     taker_address : {NULL, TAKER},
     provider      : {NULL}]

NoRequest ==
    [buy_token |-> NULL, sell_token |-> NULL, sell_amount |-> 0, chain_id |-> 0,
     gas_price |-> 0, taker_address |-> NULL, provider |-> NULL]

\* The call up to its first await: the market-order spenders of the chain
\* (ValueError for a chain in no descriptor), the three auxiliary tasks, and,
\* when the caller gave a gas price, the price tasks of the fan-out.
StartSwapMetaPrice ==
    /\ op = "idle"
    /\ \E r \in MetaRequests :
         /\ op' = "get_swap_meta_price"
         /\ request' = r
         /\ gas_price' = r.gas_price
         /\ calls' = calls
         /\ locals' = locals
         /\ gas' = gas
         /\ IF Len(MarketOrderProviders(r.chain_id)) = 0
            THEN /\ pc' = "end"
                 /\ result' = Raise("ValueError", "Chain ID not found")
                 /\ UNCHANGED <<approve_task, decimals_task, buy_price_task,
                                prices_tasks, locals>>
            ELSE /\ approve_task' =
                        [IdleApprove EXCEPT
                            !.state = "running",
                            !.providers = MarketOrderProviders(r.chain_id)]
                 /\ decimals_task' = [IdleDecimals EXCEPT !.state = "running"]
                 /\ buy_price_task' =
                        [IdleBuyPrice EXCEPT
                            !.state = "running",
                            !.token = IF r.buy_token = NATIVE_TOKEN_ADDRESS
                                      THEN WRAPPED_NATIVE ELSE r.buy_token]
                 /\ result' = result
                 /\ IF r.gas_price = 0
                    THEN pc' = "gas" /\ prices_tasks' = prices_tasks
                    ELSE /\ pc' = "gather"
                         /\ prices_tasks' = CreatePricesTasks(
                               IF r.buy_token = NATIVE_TOKEN_ADDRESS
                               THEN WRAPPED_NATIVE ELSE r.buy_token,
                               r.gas_price)

\* gas_price = await self.gas_service.get_base_gas_price(chain_id), and the
\* creation of the price tasks that follows it
BaseGasPriceDone ==
    /\ op = "get_swap_meta_price"
    /\ pc = "gas"
    /\ \/ \E g \in BaseGasPrices :
            /\ gas_price' = g
            /\ prices_tasks' = CreatePricesTasks(buy_price_task.token, g)
            /\ pc' = "gather"
            /\ result' = result
       \/ /\ gas_price' = -1
          /\ pc' = "end"
          /\ result' = Raise("Web3Error", "gas price")
          /\ prices_tasks' = prices_tasks
    /\ UNCHANGED <<gas, op, request, approve_task, decimals_task, buy_price_task,
                   calls, locals>>

\* Gathered without the test for an empty prices dict
GatheredWithoutTest ==
    /\ op = "get_swap_meta_price"
    /\ pc = "gather"
    /\ \A p \in SeqRange(QueriedProviders) : prices_tasks[p].state # "running"
    /\ pc' = "await_approve"
    /\ UNCHANGED <<gas, op, request, gas_price, approve_task, decimals_task,
                   buy_price_task, prices_tasks, calls, locals, result>>

\* a variant of Gathered that returns at the first task that has ended
GatheredFirstCompleted ==
    /\ op = "get_swap_meta_price"
    /\ pc = "gather"
    /\ \E p \in SeqRange(QueriedProviders) : prices_tasks[p].state # "running"
    /\ IF Len(PricesDict(prices_tasks)) = 0
       THEN pc' = "end" /\ result' = Raise("ValueError", "No prices found")
       ELSE pc' = "await_approve" /\ result' = result
    /\ UNCHANGED <<gas, op, request, gas_price, approve_task, decimals_task,
                   buy_price_task, prices_tasks, calls, locals>>

\* await asyncio.gather(*prices_tasks, return_exceptions=True) returns, and
\* the test for an empty prices dict
Gathered ==
    /\ op = "get_swap_meta_price"
    /\ pc = "gather"
    /\ \A p \in SeqRange(QueriedProviders) : prices_tasks[p].state # "running"
    /\ IF Len(PricesDict(prices_tasks)) = 0
       THEN pc' = "end" /\ result' = Raise("ValueError", "No prices found")
       ELSE pc' = "await_approve" /\ result' = result
    /\ UNCHANGED <<gas, op, request, gas_price, approve_task, decimals_task,
                   buy_price_task, prices_tasks, calls, locals>>

\* a variant of AwaitApproveCosts that goes on after a failed probe
AwaitApproveCostsFailureIgnored ==
    /\ op = "get_swap_meta_price"
    /\ pc = "await_approve"
    /\ Finished(approve_task)
    /\ pc' = "await_decimals"
    /\ UNCHANGED <<gas, op, request, gas_price, approve_task, decimals_task,
                   buy_price_task, prices_tasks, calls, locals, result>>

\* approve_costs = await approve_costs
AwaitApproveCosts ==
    /\ op = "get_swap_meta_price"
    /\ pc = "await_approve"
    /\ Finished(approve_task)
    /\ IF approve_task.state = "failed"
       THEN pc' = "end" /\ result' = Raise("Web3Error", "approve costs")
       ELSE pc' = "await_decimals" /\ result' = result
    /\ UNCHANGED <<gas, op, request, gas_price, approve_task, decimals_task,
                   buy_price_task, prices_tasks, calls, locals>>

\* native_decimals, buy_token_decimals = await get_decimals_task
AwaitDecimals ==
    /\ op = "get_swap_meta_price"
    /\ pc = "await_decimals"
    /\ Finished(decimals_task)
    /\ IF decimals_task.state = "failed"
       THEN pc' = "end" /\ result' = Raise("DexGuruError", "decimals")
       ELSE pc' = "await_buy_price" /\ result' = result
    /\ UNCHANGED <<gas, op, request, gas_price, approve_task, decimals_task,
                   buy_price_task, prices_tasks, calls, locals>>

\* the list get_swap_meta_price builds from prices.items()
MetaPriceList(prices, approve_costs, best_provider) ==
    [i \in 1..Len(prices) |->
        [provider       |-> prices[i].provider,
         is_allowed     |-> approve_costs[prices[i].provider] = 0,
         price_response |-> prices[i],
         is_best        |-> prices[i].provider = best_provider,
         approve_cost   |-> approve_costs[prices[i].provider]]]

\* buy_token_price = await get_buy_token_price_task, choose_best_provider and
\* the returned list
AwaitBuyPriceAndReturn ==
    /\ op = "get_swap_meta_price"
    /\ pc = "await_buy_price"
    /\ Finished(buy_price_task)
    /\ pc' = "end"
    /\ IF buy_price_task.state = "failed"
       THEN result' = Raise("DexGuruError", "price")
       ELSE LET prices == PricesDict(prices_tasks)
                best   == choose_best_provider(prices, ApproveCostsDict,
                              decimals_task.native, decimals_task.buy,
                              buy_price_task.price)
            IN  IF best.raised # NULL
                THEN result' = Raise(best.raised, "approve_costs[provider]")
                ELSE result' = Return(MetaPriceList(prices, ApproveCostsDict,
                                                    best.provider))
    /\ UNCHANGED <<gas, op, request, gas_price, approve_task, decimals_task,
                   buy_price_task, prices_tasks, calls, locals>>

(***************************************************************************)
(* MetaAggregationService.get_provider_price.                              *)
(***************************************************************************)
\* provider names a caller may give: the enabled ones, a name the registry
\* does not know, and the empty string
ProviderNames == Providers \cup {"unknown", ""}

ProviderPriceRequests ==
    [buy_token     : {TOKEN_B},
     sell_token    : {NATIVE_TOKEN_ADDRESS, TOKEN_A},
     sell_amount   : SellAmounts,
     chain_id      : ChainIds,
     gas_price     : GivenGasPrices,
     taker_address : {NULL, TAKER},
     provider      : ProviderNames]

\* errors an adapter's get_swap_price raises through handle_exception
ProviderErrors == {"AggregationProviderError", "EstimationError",
                   "ParseResponseError"}

\* next((spender['address'] for spender in market_order
\*       if spender['name'] == provider), None)
spender_address(provider, chain_id) ==
    IF provider \in SeqRange(MarketOrderProviders(chain_id))
    THEN SpenderAddress(provider, chain_id)
    ELSE NULL

\* The call up to its first await: the test of the provider name, the spender
\* lookup (ValueError for a chain in no descriptor) and the gas-price task.
StartProviderPrice ==
    /\ op = "idle"
    /\ \E r \in ProviderPriceRequests :
         /\ op' = "get_provider_price"
         /\ request' = r
         /\ gas_price' = r.gas_price
         /\ IF r.provider = ""
            THEN pc' = "end" /\ result' = Raise("ProviderNotFound", r.provider)
            ELSE IF Len(MarketOrderProviders(r.chain_id)) = 0
            THEN pc' = "end" /\ result' = Raise("ValueError", "Chain ID not found")
            ELSE pc' = "allowance" /\ result' = result
    /\ UNCHANGED <<gas, approve_task, decimals_task, buy_price_task, prices_tasks,
                   calls, locals>>

\* the task of gas_service.get_base_gas_price, created when no gas price was
\* given, ends
BaseGasPriceTaskDone ==
    /\ op = "get_provider_price"
    /\ pc \in {"allowance", "approve", "await_gas"}
    /\ gas_price = 0
    /\ \E g \in BaseGasPrices \cup {-1} : gas_price' = g
    /\ UNCHANGED <<gas, op, pc, request, approve_task, decimals_task,
                   buy_price_task, prices_tasks, calls, locals, result>>

\* allowance = await self.get_token_allowance(...) and the comparison with
\* sell_amount.  Web3.toChecksumAddress raises on a spender of None.
ProviderAllowance ==
    /\ op = "get_provider_price"
    /\ pc = "allowance"
    /\ LET p       == request.provider
           spender == spender_address(p, request.chain_id)
       IN  \E on_chain \in AllowanceValues \cup {-1} :
             LET got == get_token_allowance(request.sell_token,
                                            request.taker_address, on_chain)
             IN  IF got.read /\ spender = NULL
                 THEN /\ pc' = "end"
                      /\ result' = Raise("TypeError", "toChecksumAddress")
                      /\ UNCHANGED <<calls, locals>>
                 ELSE /\ calls' = IF got.read
                                  THEN [calls EXCEPT !.allowance[p] = @ + 1,
                                                     !.spender[p] = spender]
                                  ELSE calls
                      /\ IF got.read /\ on_chain = -1
                         THEN /\ pc' = "end"
                              /\ result' = Raise("Web3Error", "allowance")
                              /\ locals' = locals
                         ELSE /\ locals' = [locals EXCEPT
                                               !.allowance = got.allowance]
                              /\ result' = result
                              /\ pc' = IF NeedsApprove(got.allowance,
                                                       request.sell_amount)
                                       THEN "approve" ELSE "await_gas"
    /\ UNCHANGED <<gas, op, request, gas_price, approve_task, decimals_task,
                   buy_price_task, prices_tasks>>

\* approve_cost = await self.get_approve_cost(...)
ProviderApproveCost ==
    /\ op = "get_provider_price"
    /\ pc = "approve"
    /\ IF request.taker_address = NULL
       THEN /\ pc' = "end"
            /\ result' = Raise("TypeError", "toChecksumAddress")
            /\ UNCHANGED <<calls, locals>>
       ELSE /\ calls' = [calls EXCEPT !.approve[request.provider] = @ + 1]
            /\ \E estimate \in ApproveGasValues \cup {-1} :
                 IF estimate = -1
                 THEN /\ pc' = "end"
                      /\ result' = Raise("Web3Error", "estimate_gas")
                      /\ locals' = locals
                 ELSE /\ pc' = "await_gas"
                      /\ result' = result
                      /\ locals' = [locals EXCEPT !.approve_cost = estimate]
    /\ UNCHANGED <<gas, op, request, gas_price, approve_task, decimals_task,
                   buy_price_task, prices_tasks>>

\* gas_price = await gas_price if isinstance(gas_price, asyncio.Task)
\*             else gas_price
ProviderAwaitGas ==
    /\ op = "get_provider_price"
    /\ pc = "await_gas"
    /\ gas_price # 0
    /\ IF gas_price = -1
       THEN pc' = "end" /\ result' = Raise("Web3Error", "gas price")
       ELSE pc' = "price" /\ result' = result
    /\ UNCHANGED <<gas, op, request, gas_price, approve_task, decimals_task,
                   buy_price_task, prices_tasks, calls, locals>>

\* the MetaPriceModel get_provider_price returns
MetaPrice(provider, price, allowance, approve_cost) ==
    [provider       |-> provider,
     is_allowed     |-> allowance # 0,
     price_response |-> price,
     is_best        |-> NULL,
     approve_cost   |-> approve_cost]

\* price = await provider_instance.get_swap_price(...) and the return
ProviderPriceAndReturn ==
    /\ op = "get_provider_price"
    /\ pc = "price"
    /\ pc' = "end"
    /\ LET p == request.provider
       IN  IF p \notin Registered
           THEN result' = Raise("AttributeError", "get_swap_price")
           ELSE \/ \E q \in QuoteValues(p, gas_price) :
                     result' = Return(<<MetaPrice(p,
                                   [provider   |-> p,
                                    buy_amount |-> q.buy_amount,
                                    gas        |-> q.gas,
                                    gas_price  |-> q.gas_price],
                                   locals.allowance, locals.approve_cost)>>)
                \/ result' = Raise("ValidationError", "price_response")
                \/ \E e \in ProviderErrors : result' = Raise(e, p)
    /\ UNCHANGED <<gas, op, request, gas_price, approve_task, decimals_task,
                   buy_price_task, prices_tasks, calls, locals>>

(***************************************************************************)
(* MetaAggregationService.get_meta_swap_quote and the adapters'            *)
(* get_swap_quote.                                                         *)
(***************************************************************************)
\* provider = self.provider_registry.get(provider_name)
\* if not provider: raise ProviderNotFound(provider)
StartMetaSwapQuote ==
    /\ op = "idle"
    /\ \E r \in ProviderPriceRequests :
         /\ op' = "get_meta_swap_quote"
         /\ request' = r
         /\ gas_price' = r.gas_price
         /\ IF r.provider \notin Registered
            THEN pc' = "end" /\ result' = Raise("ProviderNotFound", NULL)
            ELSE pc' = "quote" /\ result' = result
    /\ UNCHANGED <<gas, approve_task, decimals_task, buy_price_task, prices_tasks,
                   calls, locals>>

\* the ProviderQuoteResponse of an adapter
SwapQuote(p, q) ==
    [provider |-> p, buy_amount |-> q.buy_amount, gas |-> q.gas,
     gas_price |-> q.gas_price]

\* OneInchProviderV5.get_swap_quote: the taker address is tested before the
\* request is built and sent
one_inch_get_swap_quote ==
    IF request.taker_address = NULL
    THEN /\ result' = Raise("ValueError", "Taker address is required")
         /\ calls' = calls
    ELSE /\ calls' = [calls EXCEPT !.quote_requests = @ + 1]
         /\ \/ \E q \in QuoteValues("one_inch", gas_price) :
                 result' = Return(<<SwapQuote("one_inch", q)>>)
            \/ \E e \in ProviderErrors : result' = Raise(e, "one_inch")

\* ZeroXProviderV1.get_swap_quote: takerAddress is left out of the query
\* when it is not given, and the request is sent
zero_x_get_swap_quote ==
    /\ calls' = [calls EXCEPT !.quote_requests = @ + 1]
    /\ \/ \E q \in QuoteValues("zero_x", gas_price) :
            result' = Return(<<SwapQuote("zero_x", q)>>)
       \/ \E e \in ProviderErrors : result' = Raise(e, "zero_x")

\* ParaSwapProviderV5.get_swap_quote: the prices request, then the
\* transactions request, whatever the taker address
paraswap_get_swap_quote ==
    \/ /\ calls' = [calls EXCEPT !.quote_requests = @ + 1]
       /\ \E e \in ProviderErrors : result' = Raise(e, "paraswap")
    \/ /\ calls' = [calls EXCEPT !.quote_requests = @ + 2]
       /\ \/ \E q \in QuoteValues("paraswap", gas_price) :
               result' = Return(<<SwapQuote("paraswap", q)>>)
          \/ \E e \in ProviderErrors : result' = Raise(e, "paraswap")

\* quote = await provider.get_swap_quote(...); return quote
MetaSwapQuoteAndReturn ==
    /\ op = "get_meta_swap_quote"
    /\ pc = "quote"
    /\ pc' = "end"
    /\ CASE request.provider = "one_inch" -> one_inch_get_swap_quote
         [] request.provider = "zero_x"   -> zero_x_get_swap_quote
         [] OTHER                         -> paraswap_get_swap_quote
    /\ UNCHANGED <<gas, op, request, gas_price, approve_task, decimals_task,
                   buy_price_task, prices_tasks, locals>>

Init ==
    /\ op = "idle"
    /\ pc = "idle"
    /\ request = NoRequest
    /\ gas_price = 0
    /\ approve_task = IdleApprove
    /\ decimals_task = IdleDecimals
    /\ buy_price_task = IdleBuyPrice
    /\ prices_tasks = [p \in Providers |-> NoTask]
    /\ calls = NoCalls
    /\ locals = NoLocals
    /\ gas = NoGas
    /\ result = NoResult

Next ==
    \/ StartSwapMetaPrice
    \/ BaseGasPriceDone
    \/ ApproveCostsNoTaker
    \/ ApproveCostsIteration
    \/ DecimalsDone
    \/ BuyPriceDone
    \/ \E p \in Providers : ProviderPriceDone(p)
    \/ Gathered
    \/ AwaitApproveCosts
    \/ AwaitDecimals
    \/ AwaitBuyPriceAndReturn
    \/ StartProviderPrice
    \/ BaseGasPriceTaskDone
    \/ ProviderAllowance
    \/ ProviderApproveCost
    \/ ProviderAwaitGas
    \/ ProviderPriceAndReturn
    \/ StartMetaSwapQuote
    \/ MetaSwapQuoteAndReturn

Spec == Init /\ [][Next]_vars

(***************************************************************************)
(* choose_best_provider called on its own: the arguments are drawn in the  *)
(* initial state, the one action applies the function.                     *)
(***************************************************************************)
\* quotes of the direct calls: buy amounts beyond the Decimal precision of the
\* model, with and without a gas cost
BestQuoteValues ==
    [buy_amount : {96, 100, 104}, gas : {0, 4}, gas_price : {1}]

BestApproveCosts == [Providers -> {0} \cup ApproveGasValues]

BestTokenPrices == {Dec(0, 0), Dec(1, 0), Dec(5, -1)}

InitBest ==
    /\ op = "choose_best_provider"
    /\ pc = "call"
    /\ request = NoRequest
    /\ gas_price = 0
    /\ \E costs \in BestApproveCosts :
         approve_task = [IdleApprove EXCEPT !.state = "done",
                                            !.providers = ProviderOrder,
                                            !.costs = costs]
    /\ \E nd \in TokenDecimals, bd \in TokenDecimals :
         decimals_task = [state |-> "done", native |-> nd, buy |-> bd]
    /\ \E price \in BestTokenPrices :
         buy_price_task = [IdleBuyPrice EXCEPT !.state = "done",
                                               !.price = price]
    /\ prices_tasks \in
         [Providers -> {NoTask} \cup
                       {[NoTask EXCEPT !.state = "quote", !.quote = q]
                           : q \in BestQuoteValues}]
    /\ calls = NoCalls
    /\ locals = NoLocals
    /\ gas = NoGas
    /\ result = NoResult

\* best_provider, best_price = self.choose_best_provider(...)
ChooseBestProvider ==
    /\ op = "choose_best_provider"
    /\ pc = "call"
    /\ pc' = "end"
    /\ LET prices == PricesDict(prices_tasks)
           best   == choose_best_provider(prices, ApproveCostsDict,
                         decimals_task.native, decimals_task.buy,
                         buy_price_task.price)
       IN  result' = Return(<<[provider |-> best.provider,
                               index    |-> best.index]>>)
    /\ UNCHANGED <<gas, op, request, gas_price, approve_task, decimals_task,
                   buy_price_task, prices_tasks, calls, locals>>

NextBest == ChooseBestProvider

SpecBest == InitBest /\ [][NextBest]_vars

(***************************************************************************)
(* The profit of the specification as an exact rational:                   *)
(* all profits of one call share the denominator                           *)
(* 10^(native_decimals + buy_token_decimals + s), s the number of decimal  *)
(* places of the price, so they are compared by their numerators.          *)
(***************************************************************************)
PricePlaces(buy_token_price) ==
    IF buy_token_price.e < 0 THEN -buy_token_price.e ELSE 0

ExactProfit(price_response, approve_cost, native_decimals, buy_token_decimals, buy_token_price) ==
    LET s == PricePlaces(buy_token_price)
    IN  price_response.buy_amount * buy_token_price.m
            * Pow10(buy_token_price.e + s) * Pow10(native_decimals)
        - (price_response.gas + approve_cost) * price_response.gas_price
            * Pow10(buy_token_decimals + s)

\* the arguments of the call in the state
CallPrices == PricesDict(prices_tasks)

CallProfit(i) ==
    Profit(CallPrices[i], ApproveCostsDict[CallPrices[i].provider],
           decimals_task.native, decimals_task.buy, buy_price_task.price)

CallExactProfit(i) ==
    ExactProfit(CallPrices[i], ApproveCostsDict[CallPrices[i].provider],
                decimals_task.native, decimals_task.buy, buy_price_task.price)

(***************************************************************************)
(* The adapters' get_swap_price, as far as the value field of the price    *)
(* response goes.  Addresses reach the adapters in lower case (the routes  *)
(* declare them address_to_lower), so str.lower() leaves them as they are. *)
(* The upstream answers truthfully: it echoes the amount and the sell      *)
(* token of the request, and its own transaction value is the amount when  *)
(* the native token is sold and 0 otherwise.                               *)
(***************************************************************************)
Adapters == {"one_inch", "zero_x", "paraswap", "open_ocean", "kyberswap",
             "lifi", "sifi", "bebop", "debridge"}

AdapterSellAmounts == {1, 5, MaxUint}

AdapterRequests ==
    [buy_token     : {TOKEN_B},
     sell_token    : {NATIVE_TOKEN_ADDRESS, TOKEN_A},
     sell_amount   : AdapterSellAmounts,
     chain_id      : {1},
     gas_price     : GivenGasPrices,
     taker_address : {NULL, TAKER},
     provider      : Adapters]

\* what the upstream answers to a price request: decimals are those of the
\* token sold as the upstream reports them
UpstreamAnswers(r) ==
    {[decimals |-> d,
      amount   |-> r.sell_amount,
      in_token |-> r.sell_token,
      value    |-> IF r.sell_token = NATIVE_TOKEN_ADDRESS
                   THEN r.sell_amount ELSE 0] : d \in TokenDecimals}

\* value of OneInchProviderV5.get_swap_price: sell_amount is rebound to
\* int(sell_amount) / 10 ** decimals before value = str(sell_amount)
one_inch_value(sell_token, sell_amount, response) ==
    IF sell_token = NATIVE_TOKEN_ADDRESS
    THEN Dec(sell_amount, -response.decimals)
    ELSE Dec(0, 0)

\* ParaSwapProviderV5 and SifiProviderV1: '0' from the conversion, replaced
\* by str(sell_amount) for the native token
paraswap_value(sell_token, sell_amount, response) ==
    IF sell_token = NATIVE_TOKEN_ADDRESS THEN Dec(sell_amount, 0) ELSE Dec(0, 0)

\* KyberSwapProviderV1 (response['inputAmount']) and LiFiProviderV1
\* (route['fromAmount'])
kyberswap_value(sell_token, sell_amount, response) ==
    IF sell_token = NATIVE_TOKEN_ADDRESS THEN Dec(response.amount, 0)
    ELSE Dec(0, 0)

\* OpenOceanProviderV2: the test is on the token the upstream reports
open_ocean_value(sell_token, sell_amount, response) ==
    IF response.in_token = NATIVE_TOKEN_ADDRESS THEN Dec(response.amount, 0)
    ELSE Dec(0, 0)

\* ZeroXProviderV1 (response['value']) and BebopProviderV2
\* (response['tx']['value'])
zero_x_value(sell_token, sell_amount, response) == Dec(response.value, 0)

\* DebridgeDlnProviderV1._convert_response_from_swap_price: value='0'
debridge_value(sell_token, sell_amount, response) == Dec(0, 0)

SwapPriceValue(adapter, sell_token, sell_amount, response) ==
    CASE adapter = "one_inch" ->
            one_inch_value(sell_token, sell_amount, response)
      [] adapter \in {"paraswap", "sifi"} ->
            paraswap_value(sell_token, sell_amount, response)
      [] adapter \in {"kyberswap", "lifi"} ->
            kyberswap_value(sell_token, sell_amount, response)
      [] adapter = "open_ocean" ->
            open_ocean_value(sell_token, sell_amount, response)
      [] adapter \in {"zero_x", "bebop"} ->
            zero_x_value(sell_token, sell_amount, response)
      [] OTHER -> debridge_value(sell_token, sell_amount, response)

InitAdapter ==
    /\ op = "get_swap_price"
    /\ pc = "call"
    /\ request \in AdapterRequests
    /\ gas_price = request.gas_price
    /\ approve_task = IdleApprove
    /\ decimals_task = IdleDecimals
    /\ buy_price_task = IdleBuyPrice
    /\ prices_tasks = [p \in Providers |-> NoTask]
    /\ calls = NoCalls
    /\ locals = NoLocals
    /\ gas = NoGas
    /\ result = NoResult

\* the upstream answers and the adapter converts the answer
AdapterSwapPrice ==
    /\ op = "get_swap_price"
    /\ pc = "call"
    /\ pc' = "end"
    /\ \E response \in UpstreamAnswers(request) :
         result' = Return(<<[provider |-> request.provider,
                             value    |-> SwapPriceValue(request.provider,
                                              request.sell_token,
                                              request.sell_amount, response)]>>)
    /\ UNCHANGED <<gas, op, request, gas_price, approve_task, decimals_task,
                   buy_price_task, prices_tasks, calls, locals>>

\* the upstream request fails and handle_exception's error is raised
AdapterSwapPriceFails ==
    /\ op = "get_swap_price"
    /\ pc = "call"
    /\ pc' = "end"
    /\ \E e \in ProviderErrors : result' = Raise(e, request.provider)
    /\ UNCHANGED <<gas, op, request, gas_price, approve_task, decimals_task,
                   buy_price_task, prices_tasks, calls, locals>>

NextAdapter == AdapterSwapPrice \/ AdapterSwapPriceFails

SpecAdapter == InitAdapter /\ [][NextAdapter]_vars

(***************************************************************************)
(* GasService.get_gas_prices_eip1559 called on its own: the fee history    *)
(* the chain answers with is drawn in the initial state, the one action    *)
(* applies the function.  (The timestamp of the report, the wall clock, is *)
(* left out.)                                                              *)
(***************************************************************************)
GAS_SOURCE == "DEXGURU"

\* w3.eth.fee_history(4, 'latest', [60, 75, 90]) asks for 4 blocks
FeeHistoryBlocks == 4

\* one row of gas_history['reward']: the 60th, 75th and 90th percentile
RewardRows == {<<1, 1, 1>>, <<1, 2, 4>>, <<2, 2, 5>>}

BaseFees == {5, 7}

\* the histories the chain may answer with: up to FeeHistoryBlocks reward
\* rows, and one base fee more than rows (the last is the next block's)
FeeHistories ==
    UNION {[reward : [1..n -> RewardRows],
            baseFeePerGas : {[i \in 1..(n + 1) |-> IF i = n + 1 THEN b ELSE 5]
                                : b \in BaseFees}]
             : n \in 0..FeeHistoryBlocks}

RECURSIVE SumSeq(_)
SumSeq(q) == IF Len(q) = 0 THEN 0 ELSE q[1] + SumSeq(Tail(q))

\* statistics.mean of integers, as the exact fraction it computes; it raises
\* StatisticsError on no data (den = 0 here)
mean(data) == [num |-> SumSeq(data), den |-> Len(data)]

\* a variant of int() that rounds half up
int_rounding(x) == (2 * x.num + x.den) \div (2 * x.den)

\* int() of a non-negative mean: truncation
int(x) == x.num \div x.den

\* reward_fast = [_[0] for _ in reward] and its two siblings
RewardColumn(reward, k) == [i \in 1..Len(reward) |-> reward[i][k]]

\* GasResponse.legacy = None and GasResponse.eip1559 = None
NoLegacy == [fast |-> -1, instant |-> -1, overkill |-> -1]

NoEip1559Tier == [max_fee |-> -1, base_fee |-> -1, max_priority_fee |-> -1]

NoEip1559 == [fast |-> NoEip1559Tier, instant |-> NoEip1559Tier,
              overkill |-> NoEip1559Tier]

\* one tier of the 'eip1559' part of the report
Eip1559Tier(base_fee, priority) ==
    [max_fee          |-> base_fee + priority,
     base_fee         |-> base_fee,
     max_priority_fee |-> priority]

\* the body of get_gas_prices_eip1559 from the fee history on
get_gas_prices_eip1559(gas_history) ==
    LET reward   == gas_history.reward
        base_fee == gas_history.baseFeePerGas[Len(gas_history.baseFeePerGas)]
    IN  IF Len(reward) = 0
        THEN Raise("StatisticsError", "mean requires at least one data point")
        ELSE Return(<<[source  |-> GAS_SOURCE,
                       eip1559 |-> [fast     |-> Eip1559Tier(base_fee,
                                         int(mean(RewardColumn(reward, 1)))),
                                    instant  |-> Eip1559Tier(base_fee,
                                         int(mean(RewardColumn(reward, 2)))),
                                    overkill |-> Eip1559Tier(base_fee,
                                         int(mean(RewardColumn(reward, 3))))],
                       legacy  |-> NoLegacy]>>)

InitFee ==
    /\ op = "get_gas_prices_eip1559"
    /\ pc = "call"
    /\ request \in FeeHistories
    /\ gas_price = 0
    /\ approve_task = IdleApprove
    /\ decimals_task = IdleDecimals
    /\ buy_price_task = IdleBuyPrice
    /\ prices_tasks = [p \in Providers |-> NoTask]
    /\ calls = NoCalls
    /\ locals = NoLocals
    /\ gas = NoGas
    /\ result = NoResult

\* gas_history = await w3.w3.eth.fee_history(...) answered, and the rest of
\* the body
GasPricesEip1559 ==
    /\ op = "get_gas_prices_eip1559"
    /\ pc = "call"
    /\ pc' = "end"
    /\ result' = get_gas_prices_eip1559(request)
    /\ UNCHANGED <<gas, op, request, gas_price, approve_task, decimals_task,
                   buy_price_task, prices_tasks, calls, locals>>

NextFee == GasPricesEip1559

SpecFee == InitFee /\ [][NextFee]_vars

(***************************************************************************)
(* GasService: get_gas_prices and get_base_gas_price behind the 5 second   *)
(* cache of aiocache and the retry of tenacity.  Time is counted in        *)
(* seconds; a call takes no time.                                          *)
(***************************************************************************)
\* cached(ttl=5, ...)
GasCacheTtl == 5

\* the clock stops here
MaxClock == 6

\* the chains of the gas service: chain 1 has the eip1559 flag, chain 56
\* has not
GasChains == {1, 56}

\* self.chains.get_chain_by_id(chain_id).eip1559
eip1559(chain_id) == chain_id = 1

\* Config.CACHE
CacheConfigs == {"memory", "redis"}

GasFunctions == {"get_gas_prices", "get_base_gas_price"}

\* what one attempt of a chain call ends with
AttemptAnswers == {"ok", "ReadTimeout", "Web3Error"}

\* stop=3 of the retry decorator
RetryStop == 3

\* what the chain would answer to the successive attempts of one call: read
\* timeouts, then at the latest at attempt RetryStop an answer that ends
\* the call, or nothing but read timeouts
PlannedAnswers ==
    UNION {{[i \in 1..n |-> IF i < n THEN "ReadTimeout" ELSE last]
               : last \in IF n < RetryStop
                          THEN AttemptAnswers \ {"ReadTimeout"}
                          ELSE AttemptAnswers} : n \in 1..RetryStop}

\* w3.eth.gas_price of a chain at a time: it moves with the clock
w3_gas_price(chain_id, t) == chain_id + t

\* w3.eth.fee_history of a chain at a time
w3_fee_history(chain_id, t) ==
    [reward        |-> [i \in 1..FeeHistoryBlocks |-> <<1, 2, 4>>],
     baseFeePerGas |-> [i \in 1..(FeeHistoryBlocks + 1) |->
                           IF i = FeeHistoryBlocks + 1
                           THEN w3_gas_price(chain_id, t) ELSE 5]]

\* the report of get_gas_prices_legacy
get_gas_prices_legacy(w3_price) ==
    [source  |-> GAS_SOURCE,
     eip1559 |-> NoEip1559,
     legacy  |-> [fast |-> w3_price, instant |-> w3_price,
                  overkill |-> w3_price]]

\* The key aiocache's cached builds for f(chain_id).  With a key_builder
\* (the redis configuration) it is key_from_args(f, chain_id).  Without one
\* (the memory configuration) it is module + name + str(args[1:] if noself
\* else args) + str(kwargs): noself is True and the wrapped callables are
\* bound methods, so args is (chain_id,) and args[1:] is ().
cache_key(config, f, chain_id) ==
    IF config = "redis" THEN <<f, <<chain_id>>>> ELSE <<f, <<>>>>

CacheKeys == {cache_key(c, f, id) :
                 c \in CacheConfigs, f \in GasFunctions, id \in GasChains}

\* no entry under a key: expires = 0
NoEntry == [value |-> <<>>, expires |-> 0]

\* get_from_cache finds a value
CacheHit(key) == gas.cache[key].expires > gas.now

\* tenacity's retry(retry=retry_if_exception_type(ReadTimeout), stop=3)
\* around a call.  An attempt that ends without ReadTimeout ends the call
\* with its outcome.  After a ReadTimeout tenacity evaluates
\* self.stop(retry_state), and stop is the integer 3, which is not
\* callable: the call ends with TypeError after its first attempt.
retry(answers) ==
    IF answers[1] = "ReadTimeout"
    THEN [attempts |-> 1, outcome |-> "TypeError"]
    ELSE [attempts |-> 1, outcome |-> answers[1]]

\* a variant of the dispatch of get_gas_prices that ignores the flag
GasPricesPathFlagIgnored(chain_id) == "eip1559"

\* if self.chains.get_chain_by_id(chain_id).eip1559: ... eip1559
\* else: ... legacy
GasPricesPath(chain_id) == IF eip1559(chain_id) THEN "eip1559" ELSE "legacy"

InitGas ==
    /\ op = "gas_service"
    /\ pc = "idle"
    /\ request = NoRequest
    /\ gas_price = 0
    /\ approve_task = IdleApprove
    /\ decimals_task = IdleDecimals
    /\ buy_price_task = IdleBuyPrice
    /\ prices_tasks = [p \in Providers |-> NoTask]
    /\ calls = NoCalls
    /\ locals = NoLocals
    /\ \E c \in CacheConfigs :
         gas = [NoGas EXCEPT !.config = c,
                             !.cache = [k \in CacheKeys |-> NoEntry]]
    /\ result = NoResult

\* the cached wrapper around a body: the stored value on a hit; otherwise
\* the body runs and its return value is stored for GasCacheTtl seconds
CachedCall(f, chain_id, answers, attempts, runs, body) ==
    LET key == cache_key(gas.config, f, chain_id)
    IN  /\ op' = f
        /\ pc' = "end"
        /\ IF CacheHit(key)
           THEN /\ request' = [chain_id |-> chain_id, answers |-> <<>>]
                /\ result' = Return(<<gas.cache[key].value>>)
                /\ gas' = [gas EXCEPT !.hit = TRUE,
                                      !.attempts = 0,
                                      !.runs = NoGas.runs]
           ELSE /\ request' = [chain_id |-> chain_id, answers |-> answers]
                /\ result' = body
                /\ gas' = [gas EXCEPT
                             !.hit = FALSE,
                             !.attempts = attempts,
                             !.runs = runs,
                             !.cache = IF body.kind = "return"
                                       THEN [@ EXCEPT ![key] =
                                              [value   |-> body.items[1],
                                               expires |-> gas.now + GasCacheTtl]]
                                       ELSE @]
        /\ UNCHANGED <<gas_price, approve_task, decimals_task, buy_price_task,
                       prices_tasks, calls, locals>>

\* GasService.get_gas_prices(chain_id)
GetGasPrices ==
    /\ op \in GasFunctions \cup {"gas_service"}
    /\ \E chain_id \in GasChains, answers \in PlannedAnswers :
         LET path == GasPricesPath(chain_id)
             r    == retry(answers)
         IN  CachedCall("get_gas_prices", chain_id, answers, r.attempts,
                [eip1559 |-> IF path = "eip1559" THEN 1 ELSE 0,
                 legacy  |-> IF path = "legacy" THEN 1 ELSE 0],
                IF r.outcome # "ok"
                THEN Raise(r.outcome, path)
                ELSE IF path = "eip1559"
                THEN get_gas_prices_eip1559(w3_fee_history(chain_id, gas.now))
                ELSE Return(<<get_gas_prices_legacy(
                                  w3_gas_price(chain_id, gas.now))>>))

\* GasService.get_base_gas_price(chain_id)
GetBaseGasPrice ==
    /\ op \in GasFunctions \cup {"gas_service"}
    /\ \E chain_id \in GasChains, answers \in PlannedAnswers :
         LET r == retry(answers)
         IN  CachedCall("get_base_gas_price", chain_id, answers, r.attempts,
                NoGas.runs,
                IF r.outcome # "ok"
                THEN Raise(r.outcome, "gas_price")
                ELSE Return(<<w3_gas_price(chain_id, gas.now)>>))

\* a second passes between two calls: the entries whose ttl has run out are
\* gone, and the last call is over
Tick ==
    /\ op \in GasFunctions \cup {"gas_service"}
    /\ gas.now < MaxClock
    /\ op' = "gas_service"
    /\ pc' = "idle"
    /\ request' = NoRequest
    /\ result' = NoResult
    /\ gas' = [gas EXCEPT
                 !.now = @ + 1,
                 !.hit = FALSE,
                 !.attempts = 0,
                 !.runs = NoGas.runs,
                 !.cache = [k \in CacheKeys |->
                              IF gas.cache[k].expires > gas.now + 1
                              THEN gas.cache[k] ELSE NoEntry]]
    /\ UNCHANGED <<gas_price, approve_task, decimals_task, buy_price_task,
                   prices_tasks, calls, locals>>

NextGas == GetGasPrices \/ GetBaseGasPrice \/ Tick

SpecGas == InitGas /\ [][NextGas]_vars

(***************************************************************************)
(* The aggregation errors and BaseAggregationProviderError                 *)
(* .to_http_exception called on its own: the error is drawn in the initial *)
(* state, the one action applies the method.                               *)
(***************************************************************************)
UserMistakes == {"EstimationError", "UserBalanceError", "AllowanceError",
                 "TokensError"}

OurMistakes == {"ValidationFailedError", "ParseResponseError",
                "ProviderNotFound", "SpenderAddressNotFound"}

ProviderMistakes == {"AggregationProviderError", "InsufficientLiquidityError",
                     "PriceError", "ProviderTimeoutError"}

ErrorKinds == UserMistakes \cup OurMistakes \cup ProviderMistakes

\* the class attribute code an error inherits from its owner class
code(error) ==
    IF error \in UserMistakes THEN 400
    ELSE IF error \in OurMistakes THEN 417
    ELSE 409

\* The errors the program builds: handle_exception gives the provider name
\* and a message string (str(exception), which may be empty); the services
\* raise ProviderNotFound(provider) without a message, get_meta_swap_quote
\* with the None the registry answered.
ErrorInstances ==
    [kind : ErrorKinds, provider : Providers, message : {"", "message"}]
      \cup [kind : {"ProviderNotFound"}, provider : {NULL, "", "unknown"},
            message : {NULL}]

\* HTTPException(status_code=self.code, detail=HttpErrorModel.parse_obj(...)):
\* the fields of HttpErrorModel are of type str, and parse_obj raises
\* ValidationError on a None
to_http_exception(e) ==
    IF e.provider = NULL \/ e.message = NULL
    THEN Raise("ValidationError", "HttpErrorModel")
    ELSE Return(<<[status_code |-> code(e.kind),
                   detail      |-> [reason   |-> e.message,
                                    provider |-> e.provider]]>>)

InitErrors ==
    /\ op = "to_http_exception"
    /\ pc = "call"
    /\ request \in ErrorInstances
    /\ gas_price = 0
    /\ approve_task = IdleApprove
    /\ decimals_task = IdleDecimals
    /\ buy_price_task = IdleBuyPrice
    /\ prices_tasks = [p \in Providers |-> NoTask]
    /\ calls = NoCalls
    /\ locals = NoLocals
    /\ gas = NoGas
    /\ result = NoResult

ToHttpException ==
    /\ op = "to_http_exception"
    /\ pc = "call"
    /\ pc' = "end"
    /\ result' = to_http_exception(request)
    /\ UNCHANGED <<gas, op, request, gas_price, approve_task, decimals_task,
                   buy_price_task, prices_tasks, calls, locals>>

NextErrors == ToHttpException

SpecErrors == InitErrors /\ [][NextErrors]_vars

(***************************************************************************)
(* LimitOrdersService (SpecLimit).                                         *)
(***************************************************************************)
LimitOperations == {"get_by_wallet_address", "get_by_hash", "post"}

\* self.provider_registry.get(provider) is not None
LimitRegistry == Registered \cup {"debridge"}

\* the adapters that define the method the operation calls
Offers(operation) ==
    CASE operation = "get_by_wallet_address" -> {"one_inch", "debridge", "zero_x"}
      [] operation = "get_by_hash"           -> {"one_inch", "debridge"}
      [] operation = "post"                  -> {"one_inch"}

\* raise NotImplementedError(f"provider {provider} is not supported")
LimitRejection(operation, provider) ==
    Raise("NotImplementedError", provider)

\* isinstance(provider_instance, OneInchProviderV5) or, for the two reads,
\* isinstance(provider_instance, DebridgeDlnProviderV1)
LimitSupported(operation) ==
    IF operation = "post" THEN {"one_inch"} ELSE {"one_inch", "debridge"}

LimitRequests ==
    [operation : LimitOperations,
     provider  : LimitRegistry \cup {"unknown"},
     chain_id  : ChainIds,
     subject   : {"0xtrader", "0xhash"}]

\* what an adapter answers: a list of orders for the trader, an order or a
\* receipt otherwise
LimitAnswers == {<<>>, <<"order_1">>, <<"order_1", "order_2">>}

NoLimitCalls == [adapter |-> NULL, method |-> NULL]

\* the method of the adapter an operation calls
LimitMethod(operation) ==
    CASE operation = "get_by_wallet_address" -> "get_orders_by_trader"
      [] operation = "get_by_hash"           -> "get_order_by_hash"
      [] operation = "post"                  -> "post_limit_order"

InitLimit ==
    /\ op = "idle"
    /\ pc = "idle"
    /\ request = NoRequest
    /\ gas_price = 0
    /\ approve_task = IdleApprove
    /\ decimals_task = IdleDecimals
    /\ buy_price_task = IdleBuyPrice
    /\ prices_tasks = [p \in Providers |-> NoTask]
    /\ calls = NoLimitCalls
    /\ locals = NoLocals
    /\ gas = NoGas
    /\ result = NoResult

\* The operation up to its await: the registry test, the isinstance test and
\* the call of the adapter's method.
StartLimitOrder ==
    /\ op = "idle"
    /\ \E r \in LimitRequests :
         /\ op' = r.operation
         /\ request' = r
         /\ IF r.provider \notin LimitRegistry
            THEN /\ pc' = "end"
                 /\ result' = Raise("ProviderNotFound", r.provider)
                 /\ calls' = calls
            ELSE IF r.provider \notin LimitSupported(r.operation)
            THEN /\ pc' = "end"
                 /\ result' = LimitRejection(r.operation, r.provider)
                 /\ calls' = calls
            ELSE /\ pc' = "adapter"
                 /\ result' = result
                 /\ calls' = [adapter |-> r.provider,
                              method  |-> LimitMethod(r.operation)]
    /\ UNCHANGED <<gas, gas_price, approve_task, decimals_task, buy_price_task,
                   prices_tasks, locals>>

\* res = await provider_instance.<method>(...); return res
LimitOrderAdapterDone ==
    /\ op \in LimitOperations
    /\ pc = "adapter"
    /\ pc' = "end"
    /\ \/ \E answer \in LimitAnswers :
            /\ locals' = [allowance |-> -1, approve_cost |-> 0,
                          answer |-> answer]
            /\ result' = Return(answer)
       \/ \E e \in ProviderErrors :
            /\ locals' = locals
            /\ result' = Raise(e, request.provider)
    /\ UNCHANGED <<gas, op, request, gas_price, approve_task, decimals_task,
                   buy_price_task, prices_tasks, calls>>

NextLimit == StartLimitOrder \/ LimitOrderAdapterDone

SpecLimit == InitLimit /\ [][NextLimit]_vars

(***************************************************************************)
(* The adapters' handle_exception (SpecHandle).  A text is a record of its *)
(* letters in lower case and whether it is written with capitals; the      *)
(* message of an upstream HTTP error is the set of the phrases it holds.   *)
(* The tables carry some of the entries of the adapters' tables, in their  *)
(* order.                                                                  *)
(***************************************************************************)
HandleAdapters == {"one_inch", "zero_x", "paraswap", "open_ocean",
                   "kyberswap", "debridge"}

\* the exceptions the adapters' call sites hand to handle_exception
ExceptionKinds == {"KeyError", "ValidationError", "ServerDisconnectedError",
                   "TimeoutError", "ClientResponseError"}

Text(letters, capitals) == [letters |-> letters, capitals |-> capitals]

\* str.lower()
lower(text) == Text(text.letters, FALSE)

ONE_INCH_ERRORS ==
    <<<<Text("insufficient liquidity", FALSE), "InsufficientLiquidityError">>,
      <<Text("cannot estimate", FALSE), "EstimationError">>,
      <<Text("not enough allowance", FALSE), "AllowanceError">>>>

ZERO_X_ERRORS ==
    <<<<Text("insufficient funds for transaction", TRUE), "UserBalanceError">>,
      <<Text("gas estimation failed", TRUE), "EstimationError">>>>

PARASWAP_ERRORS ==
    <<<<Text("invalid tokens", TRUE), "TokensError">>,
      <<Text("price timeout", TRUE), "PriceError">>>>

\* the table an adapter's handle_exception searches; <<>> for an adapter
\* without one
ErrorTable(adapter) ==
    CASE adapter = "one_inch" -> ONE_INCH_ERRORS
      [] adapter = "zero_x"   -> ZERO_X_ERRORS
      [] adapter = "paraswap" -> PARASWAP_ERRORS
      [] OTHER                -> <<>>

\* the phrases an upstream message may hold
Phrases ==
    {"insufficient liquidity", "cannot estimate", "not enough allowance",
     "insufficient funds for transaction", "gas estimation failed",
     "invalid tokens", "price timeout", "server error"}

\* the messages of the model: at most two phrases, in lower case or not
UpstreamMessages ==
    {[phrases |-> ps, capitals |-> c] :
        ps \in {q \in SUBSET Phrases : Cardinality(q) \in {1, 2}},
        c \in BOOLEAN}

NoMessage == [phrases |-> {}, capitals |-> FALSE]

\* re.search(pattern, msg) for the texts as they are written
search(pattern, msg_phrases, msg_capitals) ==
    \E ph \in msg_phrases : Text(ph, msg_capitals) = pattern

\* re.search(error.lower(), msg.lower())
SearchLowered(pattern, msg) ==
    search(lower(pattern), msg.phrases, FALSE)

\* for error, error_class in TABLE.items(): if re.search(...): break
\* else: error_class = AggregationProviderError
RECURSIVE error_class(_, _)
error_class(table, msg) ==
    IF Len(table) = 0 THEN "AggregationProviderError"
    ELSE IF SearchLowered(table[1][1], msg) THEN table[1][2]
    ELSE error_class(Tail(table), msg)

\* BaseProvider.handle_exception: the class of the error returned, NULL for
\* the None it returns by falling off its end
base_handle_exception(exception) ==
    IF exception \in {"KeyError", "ValidationError"}
    THEN "ParseResponseError"
    ELSE IF exception \in {"ServerDisconnectedError", "TimeoutError"}
    THEN "ProviderTimeoutError"
    ELSE NULL

\* the handle_exception of an adapter: OpenOceanProviderV2 returns what the
\* base class returned; the others go on to their table, or to
\* AggregationProviderError, when the base class returned None
handle_exception(adapter, exception, msg) ==
    LET exc == base_handle_exception(exception)
    IN  IF adapter = "open_ocean" \/ exc # NULL THEN exc
        ELSE error_class(ErrorTable(adapter), msg)

InitHandle ==
    /\ op = "idle"
    /\ pc = "idle"
    /\ request \in
          {[adapter |-> a, exception |-> e, msg |-> m] :
              a \in HandleAdapters, e \in ExceptionKinds,
              m \in UpstreamMessages \cup {NoMessage}}
    /\ (request.msg = NoMessage) <=> (request.exception # "ClientResponseError")
    /\ gas_price = 0
    /\ approve_task = IdleApprove
    /\ decimals_task = IdleDecimals
    /\ buy_price_task = IdleBuyPrice
    /\ prices_tasks = [p \in Providers |-> NoTask]
    /\ calls = NoCalls
    /\ locals = NoLocals
    /\ gas = NoGas
    /\ result = NoResult

\* exc = self.handle_exception(e, ...): result.error is the class of the
\* object returned, NULL for None
HandleException ==
    /\ op = "idle"
    /\ op' = "handle_exception"
    /\ pc' = "end"
    /\ result' = [Return(<<>>) EXCEPT
                     !.error = handle_exception(request.adapter,
                                                request.exception, request.msg)]
    /\ UNCHANGED <<gas, request, gas_price, approve_task, decimals_task,
                   buy_price_task, prices_tasks, calls, locals>>

NextHandle == HandleException

SpecHandle == InitHandle /\ [][NextHandle]_vars

(***************************************************************************)
(* utils.cache.key_from_args (SpecKey).  An argument is a record of its    *)
(* class (kind), its value (the string, the enum value, the contract       *)
(* address, the provider name) and the identity of the object (id; 0 for a *)
(* value that has none).  The key is the text that is digested: the        *)
(* function, the list of filtered arguments and the sorted keyword items.  *)
(***************************************************************************)
\* the longest positional argument list of the model
MaxArgs == 1

\* the object identities of the model: two objects, in one process run or two
ObjectIds == {1, 2}

Arg(kind, value, id) == [kind |-> kind, value |-> value, id |-> id]

KeyArgValues ==
    {Arg("str", v, 0) : v \in {"0xa", "0xb"}}
        \cup {Arg("Enum", "memory", 0)}
        \cup {Arg("AsyncContract", a, i) : a \in {"0xa", "0xb"}, i \in ObjectIds}
        \cup {Arg("Request", "", i) : i \in ObjectIds}
        \cup {Arg("provider", "one_inch", i) : i \in ObjectIds}

\* the names of the keyword arguments, in the order sorted() gives them
KwargNames == <<"owner_address", "request">>

\* the values a keyword may carry
KwargValues(name) ==
    IF name = "request" THEN {Arg("Request", "", i) : i \in ObjectIds}
    ELSE {Arg("str", v, 0) : v \in {"0xa", "0xb"}}

\* keyword arguments in the order the caller wrote them: a sequence of
\* <<name, value>> with distinct names
KeyKwargs ==
    {<<>>}
        \cup {<<<<n, v>>>> : n \in SeqRange(KwargNames),
                             v \in KwargValues("owner_address")
                                      \cup KwargValues("request")}
        \cup {<<<<n1, v1>>, <<n2, v2>>>> :
                  n1 \in SeqRange(KwargNames), n2 \in SeqRange(KwargNames),
                  v1 \in KwargValues("owner_address") \cup KwargValues("request"),
                  v2 \in KwargValues("owner_address") \cup KwargValues("request")}

WellFormedKwargs(kw) ==
    /\ \A i \in 1..Len(kw) : kw[i][2] \in KwargValues(kw[i][1])
    /\ \A i, j \in 1..Len(kw) : i # j => kw[i][1] # kw[j][1]

KeyCalls ==
    {c \in [args : {<<>>} \cup {<<a>> : a \in KeyArgValues}, kwargs : KeyKwargs] :
        WellFormedKwargs(c.kwargs)}

\* repr(arg), the text str() of a list writes for an element: the value of a
\* string, the member of an Enum, and for an object without __repr__ its
\* class and its identity
repr(arg) ==
    IF arg.kind \in {"str", "Enum"} THEN arg
    ELSE Arg(arg.kind, "", arg.id)

\* the loop over args: the value of an Enum, the address of a contract, the
\* name of a provider, nothing for a Request, and then the argument itself
RECURSIVE FilteredArgs(_)
FilteredArgs(args) ==
    IF Len(args) = 0 THEN <<>>
    ELSE LET arg == args[1]
             rest == FilteredArgs(Tail(args))
         IN  IF arg.kind = "Request" THEN rest
             ELSE IF arg.kind \in {"Enum", "AsyncContract", "provider"}
             THEN <<Arg("str", arg.value, 0), repr(arg)>> \o rest
             ELSE <<repr(arg)>> \o rest

\* if kwargs.get('request'): kwargs.pop('request'); a Request is truthy
PopRequest(kwargs) == SelectSeq(kwargs, LAMBDA item : item[1] # "request")

\* sorted(kwargs.items()): the names are distinct, so the order is theirs
SortedItems(kwargs) ==
    LET At(n) == SelectSeq(kwargs, LAMBDA item : item[1] = n)
        ItemRepr(q) == [i \in 1..Len(q) |-> <<q[i][1], repr(q[i][2])>>]
    IN  ItemRepr(At(KwargNames[1])) \o ItemRepr(At(KwargNames[2]))

\* the text key_from_args digests, for one function; md5 gives equal digests
\* to equal texts
key_from_args(args, kwargs) ==
    <<FilteredArgs(args), SortedItems(PopRequest(kwargs))>>

NoKeys == [first |-> <<>>, second |-> <<>>, done |-> FALSE]

InitKey ==
    /\ op = "idle"
    /\ pc = "idle"
    /\ request \in [first : KeyCalls, second : KeyCalls]
    /\ gas_price = 0
    /\ approve_task = IdleApprove
    /\ decimals_task = IdleDecimals
    /\ buy_price_task = IdleBuyPrice
    /\ prices_tasks = [p \in Providers |-> NoTask]
    /\ calls = NoCalls
    /\ locals = NoKeys
    /\ gas = NoGas
    /\ result = NoResult

\* the key builder is called for the two calls of the same function
KeyFromArgs ==
    /\ op = "idle"
    /\ op' = "key_from_args"
    /\ pc' = "end"
    /\ locals' = [first  |-> key_from_args(request.first.args,
                                           request.first.kwargs),
                  second |-> key_from_args(request.second.args,
                                           request.second.kwargs),
                  done   |-> TRUE]
    /\ UNCHANGED <<gas, request, gas_price, approve_task, decimals_task,
                   buy_price_task, prices_tasks, calls, result>>

NextKey == KeyFromArgs

SpecKey == InitKey /\ [][NextKey]_vars

(***************************************************************************)
(* Cancellation of get_swap_meta_price (SpecCancel).  A CancelledError is  *)
(* thrown into the call at the await it is suspended on.  asyncio cancels  *)
(* what that await waits for: the children of asyncio.gather, or the task  *)
(* awaited directly; the awaited coroutine of get_base_gas_price is part   *)
(* of the call itself.  A task that was only created goes on running, and  *)
(* the await of a task that has ended does not suspend.                    *)
(***************************************************************************)
\* the price tasks after the cancellation of the gather that waits for them
CancelGathered(tasks) ==
    [p \in Providers |->
        IF tasks[p].state = "running"
        THEN [tasks[p] EXCEPT !.state = "cancelled"]
        ELSE tasks[p]]

\* a task after the cancellation of the await that waits for it
CancelAwaited(task) ==
    IF task.state = "running" THEN [task EXCEPT !.state = "cancelled"]
    ELSE task

CancelSwapMetaPrice ==
    /\ op = "get_swap_meta_price"
    /\ \/ pc \in {"gas", "gather"}
       \/ pc = "await_approve" /\ approve_task.state = "running"
       \/ pc = "await_decimals" /\ decimals_task.state = "running"
       \/ pc = "await_buy_price" /\ buy_price_task.state = "running"
    /\ pc' = "end"
    /\ result' = Raise("CancelledError", pc)
    /\ prices_tasks' = IF pc = "gather" THEN CancelGathered(prices_tasks)
                       ELSE prices_tasks
    /\ approve_task' = IF pc = "await_approve" THEN CancelAwaited(approve_task)
                       ELSE approve_task
    /\ decimals_task' = IF pc = "await_decimals"
                        THEN CancelAwaited(decimals_task)
                        ELSE decimals_task
    /\ buy_price_task' = IF pc = "await_buy_price"
                         THEN CancelAwaited(buy_price_task)
                         ELSE buy_price_task
    /\ UNCHANGED <<gas, op, request, gas_price, calls, locals>>

NextCancel ==
    \/ StartSwapMetaPrice
    \/ BaseGasPriceDone
    \/ ApproveCostsNoTaker
    \/ ApproveCostsIteration
    \/ DecimalsDone
    \/ BuyPriceDone
    \/ \E p \in Providers : ProviderPriceDone(p)
    \/ Gathered
    \/ AwaitApproveCosts
    \/ AwaitDecimals
    \/ AwaitBuyPriceAndReturn
    \/ CancelSwapMetaPrice

SpecCancel == Init /\ [][NextCancel]_vars

(***************************************************************************)
(* MetaAggregationService.get_crosschain_provider_price (SpecCross).  The  *)
(* destination chain is handed to the adapter and read nowhere else, so    *)
(* the request of the model carries only the source chain.                 *)
(***************************************************************************)
\* the adapters of the CrossChainProvider interface: debridge is the one of
\* the repository, other_bridge is an adapter whose is_require_gas_price
\* returns False, which the abstract method allows
CrossChainAdapters == {"debridge", "other_bridge"}

\* self.provider_registry.get(provider) is not None: the single-chain
\* registry, which holds the single-chain adapters too
CrossRegistry == Registered \cup CrossChainAdapters

\* the provider names a caller may pass
CrossProviderNames == CrossChainAdapters \cup {"one_inch", "unknown"}

\* CrossChainProvider.is_require_gas_price()
is_require_gas_price(provider) == provider = "debridge"

\* the market-order spender of the cross-chain descriptors: both list chain 1
\* only
CrossSpenderAddress(provider, chain_id) ==
    IF provider \in CrossChainAdapters /\ chain_id = 1
    THEN "spender_" \o provider
    ELSE NULL

\* the price an adapter returns: ProviderPriceResponse.allowance_target is
\* Optional[str]
AllowanceTargets == {NULL, "0xtarget"}

CrossRequests ==
    [buy_token     : {TOKEN_B},
     sell_token    : {NATIVE_TOKEN_ADDRESS, TOKEN_A},
     sell_amount   : SellAmounts,
     chain_id      : ChainIds,
     gas_price     : GivenGasPrices,
     taker_address : {NULL, TAKER},
     provider      : CrossProviderNames]

\* what the call has asked of the gas service, the adapter and the chain:
\* swap_price is the sequence of the gas prices passed to get_swap_price
NoCrossCalls == [base_gas_price |-> 0, swap_price |-> <<>>,
                 allowance |-> 0, approve |-> 0]

\* the local variables of the call; "unbound" before the assignment
NoCrossLocals == [fetched |-> 0, allowance_target |-> "unbound",
                  spender |-> "unbound", allowance |-> -1, approve_cost |-> 0,
                  buy_amount |-> 0]

\* if provider_instance.is_require_gas_price(): if not gas_price: create_task
\* with the test of the adapter left out
NeedsBaseGasPriceAnyAdapter(provider, given) == given = 0

\* if provider_instance.is_require_gas_price(): if not gas_price: create_task
NeedsBaseGasPrice(provider, given) ==
    is_require_gas_price(provider) /\ given = 0

\* the spender taken from the descriptor whatever the adapter returned
CrossSpenderFromDescriptor(allowance_target, provider, chain_id) ==
    CrossSpenderAddress(provider, chain_id)

\* if price.allowance_target is None: next((...), None)
\* else: price.allowance_target
CrossSpender(allowance_target, provider, chain_id) ==
    IF allowance_target = NULL
    THEN CrossSpenderAddress(provider, chain_id)
    ELSE allowance_target

\* The call up to its first await: the registry test, is_require_gas_price
\* (a single-chain adapter has no such method) and the gas-price task.
StartCrosschainProviderPrice ==
    /\ op = "idle"
    /\ \E r \in CrossRequests :
         /\ op' = "get_crosschain_provider_price"
         /\ request' = r
         /\ gas_price' = r.gas_price
         /\ IF r.provider \notin CrossRegistry
            THEN /\ pc' = "end"
                 /\ result' = Raise("ProviderNotFound", r.provider)
                 /\ calls' = NoCrossCalls
            ELSE IF r.provider \notin CrossChainAdapters
            THEN /\ pc' = "end"
                 /\ result' = Raise("AttributeError", "is_require_gas_price")
                 /\ calls' = NoCrossCalls
            ELSE IF NeedsBaseGasPrice(r.provider, r.gas_price)
            THEN /\ pc' = "await_gas"
                 /\ result' = result
                 /\ calls' = [NoCrossCalls EXCEPT !.base_gas_price = 1]
            ELSE /\ pc' = "price"
                 /\ result' = result
                 /\ calls' = [NoCrossCalls EXCEPT
                                 !.swap_price = <<r.gas_price>>]
    /\ locals' = NoCrossLocals
    /\ UNCHANGED <<gas, approve_task, decimals_task, buy_price_task,
                   prices_tasks>>

\* gas_price = await gas_price: the task of get_base_gas_price ends and the
\* adapter is called with its value
CrossBaseGasPriceDone ==
    /\ op = "get_crosschain_provider_price"
    /\ pc = "await_gas"
    /\ \E g \in BaseGasPrices \cup {-1} :
         IF g = -1
         THEN /\ pc' = "end"
              /\ result' = Raise("Web3Error", "gas price")
              /\ UNCHANGED <<gas_price, calls, locals>>
         ELSE /\ pc' = "price"
              /\ result' = result
              /\ gas_price' = g
              /\ locals' = [locals EXCEPT !.fetched = g]
              /\ calls' = [calls EXCEPT !.swap_price = <<g>>]
    /\ UNCHANGED <<gas, op, request, approve_task, decimals_task,
                   buy_price_task, prices_tasks>>

\* price = await provider_instance.get_swap_price(...) ends; the spender is
\* chosen (get_providers_on_chain raises ValueError for a chain in no
\* descriptor) and get_token_allowance is called
CrossSwapPriceDone ==
    /\ op = "get_crosschain_provider_price"
    /\ pc = "price"
    /\ \/ /\ \E e \in ProviderErrors : result' = Raise(e, request.provider)
          /\ pc' = "end"
          /\ locals' = locals
       \/ \E target \in AllowanceTargets, b \in {1, 2} :
            IF target = NULL /\ Len(MarketOrderProviders(request.chain_id)) = 0
            THEN /\ pc' = "end"
                 /\ result' = Raise("ValueError", "Chain ID not found")
                 /\ locals' = [locals EXCEPT !.allowance_target = target,
                                             !.buy_amount = b]
            ELSE /\ pc' = "allowance"
                 /\ result' = result
                 /\ locals' = [locals EXCEPT
                       !.allowance_target = target,
                       !.buy_amount = b,
                       !.spender = CrossSpender(target, request.provider,
                                                request.chain_id)]
    /\ UNCHANGED <<gas, op, request, gas_price, approve_task, decimals_task,
                   buy_price_task, prices_tasks, calls>>

\* the MetaPriceModel get_crosschain_provider_price returns
CrossMetaPrice(allowance, approve_cost) ==
    MetaPrice(request.provider,
              [provider         |-> request.provider,
               buy_amount       |-> locals.buy_amount,
               allowance_target |-> locals.allowance_target],
              allowance, approve_cost)

\* allowance = await self.get_token_allowance(...) ends; without a need for
\* an approve the call returns.  Web3.toChecksumAddress raises on a spender of
\* None.
CrossAllowanceDone ==
    /\ op = "get_crosschain_provider_price"
    /\ pc = "allowance"
    /\ \E on_chain \in AllowanceValues \cup {-1} :
         LET got == get_token_allowance(request.sell_token,
                                        request.taker_address, on_chain)
         IN  IF got.read /\ locals.spender = NULL
             THEN /\ pc' = "end"
                  /\ result' = Raise("TypeError", "toChecksumAddress")
                  /\ UNCHANGED <<calls, locals>>
             ELSE /\ calls' = IF got.read
                              THEN [calls EXCEPT !.allowance = @ + 1]
                              ELSE calls
                  /\ IF got.read /\ on_chain = -1
                     THEN /\ pc' = "end"
                          /\ result' = Raise("Web3Error", "allowance")
                          /\ locals' = locals
                     ELSE /\ locals' = [locals EXCEPT
                                           !.allowance = got.allowance]
                          /\ IF NeedsApprove(got.allowance,
                                             request.sell_amount)
                             THEN pc' = "approve" /\ result' = result
                             ELSE /\ pc' = "end"
                                  /\ result' = Return(<<CrossMetaPrice(
                                                    got.allowance, 0)>>)
    /\ UNCHANGED <<gas, op, request, gas_price, approve_task, decimals_task,
                   buy_price_task, prices_tasks>>

\* approve_cost = await self.get_approve_cost(...) ends and the call returns
CrossApproveCostDone ==
    /\ op = "get_crosschain_provider_price"
    /\ pc = "approve"
    /\ pc' = "end"
    /\ calls' = [calls EXCEPT !.approve = @ + 1]
    /\ \E estimate \in ApproveGasValues \cup {-1} :
         IF estimate = -1
         THEN /\ result' = Raise("Web3Error", "estimate_gas")
              /\ locals' = locals
         ELSE /\ locals' = [locals EXCEPT !.approve_cost = estimate]
              /\ result' = Return(<<CrossMetaPrice(locals.allowance,
                                                   estimate)>>)
    /\ UNCHANGED <<gas, op, request, gas_price, approve_task, decimals_task,
                   buy_price_task, prices_tasks>>

InitCross ==
    /\ op = "idle"
    /\ pc = "idle"
    /\ request = NoRequest
    /\ gas_price = 0
    /\ approve_task = IdleApprove
    /\ decimals_task = IdleDecimals
    /\ buy_price_task = IdleBuyPrice
    /\ prices_tasks = [p \in Providers |-> NoTask]
    /\ calls = NoCrossCalls
    /\ locals = NoCrossLocals
    /\ gas = NoGas
    /\ result = NoResult

NextCross ==
    \/ StartCrosschainProviderPrice
    \/ CrossBaseGasPriceDone
    \/ CrossSwapPriceDone
    \/ CrossAllowanceDone
    \/ CrossApproveCostDone

SpecCross == InitCross /\ [][NextCross]_vars

\* numeric equality of a Decimal and an integer
DecEqualsInt(x, n) ==
    LET e == IF x.e < 0 THEN x.e ELSE 0
    IN  Aligned(x, e) = n * Pow10(-e)

(***************************************************************************)
(* Properties of get_swap_meta_price and get_provider_price (Spec).        *)
(***************************************************************************)
\* every price task of the fan-out has ended
FanOutDone ==
    \A p \in SeqRange(QueriedProviders) :
        prices_tasks[p].state \in {"quote", "returned_none", "exception"}

\* the providers whose get_swap_price returned a price response
Succeeded ==
    {p \in SeqRange(QueriedProviders) : prices_tasks[p].state = "quote"}

AuxiliaryDone ==
    /\ approve_task.state = "done"
    /\ decimals_task.state = "done"
    /\ buy_price_task.state = "done"

ReturnedProviders == {result.items[i].provider : i \in 1..Len(result.items)}

MetaEnded == op = "get_swap_meta_price" /\ pc = "end"

\* C1: a call of get_swap_meta_price in which at least one queried provider
\* returned a quote (and the allowance, decimals and price lookups succeeded)
\* returns normally, and the returned list names exactly the providers that
\* returned a quote.
C1_PartialFailureReturnsTheRest ==
    (MetaEnded /\ FanOutDone /\ Succeeded # {} /\ AuxiliaryDone)
        => /\ result.kind = "return"
           /\ ReturnedProviders = Succeeded
           /\ Len(result.items) = Cardinality(Succeeded)

ItemExactProfit(i) ==
    ExactProfit(result.items[i].price_response, result.items[i].approve_cost,
                decimals_task.native, decimals_task.buy, buy_price_task.price)

\* C3: every list get_swap_meta_price returns has exactly one element with
\* is_best = TRUE, and the profit of that element is the maximum of the list.
C3_ExactlyOneBestWithMaxProfit ==
    (MetaEnded /\ result.kind = "return")
        => /\ Cardinality({i \in 1..Len(result.items) :
                              result.items[i].is_best}) = 1
           /\ \A i, j \in 1..Len(result.items) :
                 result.items[i].is_best
                     => ItemExactProfit(i) >= ItemExactProfit(j)

NoChainCalls ==
    \A p \in Providers : calls.allowance[p] = 0 /\ calls.approve[p] = 0

ReturnedWithoutApprove ==
    result.kind = "return"
        => \A i \in 1..Len(result.items) :
              result.items[i].approve_cost = 0 /\ result.items[i].is_allowed

PriceOperation == op \in {"get_swap_meta_price", "get_provider_price"}

\* C7: in a price request without a taker address the allowance is never read
\* and the approve is never estimated, and every MetaPrice returned has
\* approve_cost = 0 and is_allowed = TRUE.
C7_NoTakerNoApproveCost ==
    (PriceOperation /\ request.taker_address = NULL)
        => NoChainCalls /\ ReturnedWithoutApprove

C7_Witness ==
    /\ op = "get_provider_price"
    /\ request.taker_address = NULL
    /\ request.sell_token = TOKEN_A
    /\ request.sell_amount = MaxUint
    /\ result.kind = "return"
    /\ Len(result.items) = 1

\* C8: in a price request that sells the native token the allowance of every
\* provider is 2^256 - 1 without a chain call, and every MetaPrice returned
\* has approve_cost = 0 and is_allowed = TRUE.
C8_NativeSellNoApproveCost ==
    (PriceOperation /\ request.sell_token = NATIVE_TOKEN_ADDRESS)
        => /\ NoChainCalls
           /\ ReturnedWithoutApprove
           /\ locals.allowance \in {-1, MaxUint}
           /\ \A p \in Providers : approve_task.allowance[p] \in {-1, MaxUint}

C8_Witness ==
    /\ MetaEnded
    /\ request.sell_token = NATIVE_TOKEN_ADDRESS
    /\ request.taker_address = TAKER
    /\ request.sell_amount = MaxUint
    /\ result.kind = "return"
    /\ Len(result.items) >= 2
    /\ \A p \in SeqRange(approve_task.providers) :
          approve_task.allowance[p] = MaxUint

C11_AllowedIffNoApproveCost ==
    (op = "get_provider_price" /\ result.kind = "return")
        => \A i \in 1..Len(result.items) :
              result.items[i].is_allowed <=> result.items[i].approve_cost = 0


\* C12: an operation that takes a provider name and is given a name the
\* registry does not know ends with ProviderNotFound.
C12_UnknownProviderIsProviderNotFound ==
    (/\ op \in {"get_provider_price", "get_meta_swap_quote"}
     /\ pc = "end"
     /\ request.provider \notin Registered)
        => (result.kind = "raise" /\ result.error = "ProviderNotFound")

\* C13: get_meta_swap_quote of a registered provider without a taker
\* address ends with ValidationFailedError and sends no upstream request.
C13_NoTakerIsValidationFailed ==
    (/\ op = "get_meta_swap_quote"
     /\ pc = "end"
     /\ request.provider \in Registered
     /\ request.taker_address = NULL)
        => /\ result.kind = "raise"
           /\ result.error = "ValidationFailedError"
           /\ calls.quote_requests = 0


\* C14: once get_swap_meta_price has created its price tasks, the providers
\* with a task are exactly those with a market-order spender on the chain of
\* the request, and the call never ends with a KeyError.
C14_OnlyMarketOrderProvidersAsked ==
    (op = "get_swap_meta_price" /\ \E p \in Providers : prices_tasks[p].state # "none")
        => /\ {p \in Providers : prices_tasks[p].state # "none"}
                 = SeqRange(MarketOrderProviders(request.chain_id))
           /\ ~(result.kind = "raise" /\ result.error = "KeyError")

\* C28: the buy token every adapter's get_swap_price is called with is the
\* buy token of the request.
C28_AdaptersGetTheCallersBuyToken ==
    op = "get_swap_meta_price"
        => \A p \in Providers :
             prices_tasks[p].state # "none"
                => prices_tasks[p].buy_token = request.buy_token

\* the providers whose get_swap_price task was created
Asked == {p \in Providers : prices_tasks[p].state # "none"}

\* C29: within one get_swap_meta_price every adapter is called with the same
\* gas price, the caller's when one was given and otherwise the one
\* get_base_gas_price returned; no adapter is called while that value is
\* unknown, and none at all when the gas lookup failed.
C29_OneGasPriceForAllAdapters ==
    op = "get_swap_meta_price"
        => /\ \A p \in Asked :
                /\ prices_tasks[p].gas_price = gas_price
                /\ gas_price \notin {0, -1}
                /\ request.gas_price # 0
                      => prices_tasks[p].gas_price = request.gas_price
           /\ pc = "gas" => Asked = {}
           /\ gas_price = -1
                => /\ Asked = {}
                   /\ pc = "end"
                   /\ result.kind = "raise"

\* adapters called with a gas price the gas service returned
C29_Witness ==
    /\ op = "get_swap_meta_price"
    /\ request.gas_price = 0
    /\ gas_price \in BaseGasPrices
    /\ Cardinality(Asked) > 1
    /\ \A p \in Asked : prices_tasks[p].gas_price = gas_price

\* the first of the three lookups, in the order they are awaited, that
\* failed
FailedLookup ==
    IF approve_task.state = "failed" THEN "approve costs"
    ELSE IF decimals_task.state = "failed" THEN "decimals"
    ELSE IF buy_price_task.state = "failed" THEN "price"
    ELSE NULL

\* C30: when a provider returned a quote, a get_swap_meta_price that has
\* ended returned a list only if the allowance probe, the decimals lookup
\* and the price lookup all succeeded; after a failed lookup it has raised
\* the error of that lookup.
C30_FailedLookupFailsTheRequest ==
    (MetaEnded /\ FanOutDone /\ Succeeded # {})
        => /\ result.kind = "return" => AuxiliaryDone
           /\ FailedLookup # NULL
                => /\ result.kind = "raise"
                   /\ result.error \in {"Web3Error", "DexGuruError"}
                   /\ result.message = FailedLookup

\* a request with a quote that failed on the decimals lookup
C30_Witness ==
    /\ MetaEnded
    /\ Succeeded # {}
    /\ approve_task.state = "done"
    /\ decimals_task.state = "failed"
    /\ result = Raise("DexGuruError", "decimals")

\* C25: the list get_swap_meta_price returned is a function of what the
\* tasks ended with, taken in the provider iteration order: it holds the
\* quotes of the tasks in that order, with the best one marked, whatever
\* the order in which the tasks ended.
C25_ListIndependentOfCompletionOrder ==
    (MetaEnded /\ result.kind = "return")
        => /\ FanOutDone
           /\ LET prices == PricesDict(prices_tasks)
                  best   == choose_best_provider(prices, ApproveCostsDict,
                                decimals_task.native, decimals_task.buy,
                                buy_price_task.price)
              IN  result.items = MetaPriceList(prices, ApproveCostsDict,
                                               best.provider)

\* a returned list of two quotes or more
C25_Witness ==
    /\ MetaEnded
    /\ result.kind = "return"
    /\ Len(result.items) > 1
    /\ \E i \in 1..Len(result.items) : result.items[i].is_best

(***************************************************************************)
(* Properties of LimitOrdersService (SpecLimit).                           *)
(***************************************************************************)
LimitCall == op \in LimitOperations

\* C22: a limit-order operation fails with ProviderNotFound when the named
\* provider is unknown and when the named adapter is registered but does not
\* offer the operation; the adapter is called only when it offers the
\* operation, and its result is then returned unchanged.
C22_LimitOrderNeedsTheCapability ==
    LimitCall =>
        /\ request.provider \notin (LimitRegistry \cap Offers(op))
              => /\ pc = "end"
                 /\ result.kind = "raise"
                 /\ result.error = "ProviderNotFound"
        /\ calls.adapter # NULL
              => /\ calls.adapter = request.provider
                 /\ calls.adapter \in Offers(op)
                 /\ calls.method = LimitMethod(op)
        /\ result.kind = "return" => result.items = locals.answer

(***************************************************************************)
(* Properties of handle_exception (SpecHandle).                            *)
(***************************************************************************)
Handled == op = "handle_exception" /\ pc = "end"

\* the entries of the adapter's table that match the message
MatchingEntries ==
    LET table == ErrorTable(request.adapter)
    IN  {i \in 1..Len(table) : SearchLowered(table[i][1], request.msg)}

\* C21: handle_exception returns an error object for every exception (it
\* returns, and not None): ParseResponseError for a missing key or a schema
\* violation, ProviderTimeoutError for a timeout or a server disconnect, and
\* for an upstream HTTP error the class of the first entry of the adapter's
\* table whose pattern matches the message without regard to case, or
\* AggregationProviderError when no entry matches.
C21_EveryExceptionGetsATypedError ==
    Handled =>
        /\ result.kind = "return"
        /\ result.error # NULL
        /\ request.exception \in {"KeyError", "ValidationError"}
              => result.error = "ParseResponseError"
        /\ request.exception \in {"ServerDisconnectedError", "TimeoutError"}
              => result.error = "ProviderTimeoutError"
        /\ request.exception = "ClientResponseError"
              => IF MatchingEntries = {}
                 THEN result.error = "AggregationProviderError"
                 ELSE \E i \in MatchingEntries :
                        /\ \A j \in MatchingEntries : i <= j
                        /\ result.error = ErrorTable(request.adapter)[i][2]

(***************************************************************************)
(* Properties of key_from_args (SpecKey).                                  *)
(***************************************************************************)
\* an argument without the identity of its object
Input(arg) == Arg(arg.kind, arg.value, 0)

\* what a call passes apart from the order of its keyword arguments, the
\* request it carries and the identity of its objects
CallInput(c) ==
    [args   |-> LET kept == SelectSeq(c.args, LAMBDA a : a.kind # "Request")
                IN  [i \in 1..Len(kept) |-> Input(kept[i])],
     kwargs |-> {<<c.kwargs[i][1], Input(c.kwargs[i][2])>> :
                    i \in {j \in 1..Len(c.kwargs) :
                              c.kwargs[j][1] # "request"}}]

\* C27: two calls of one function get the same key exactly when they pass
\* the same inputs: the same key whatever the order of the keyword
\* arguments, the request object and the identity of the objects passed, and
\* different keys when a positional or keyword value differs.
C27_KeyIsAFunctionOfTheInputs ==
    (op = "key_from_args" /\ locals.done) =>
        ((CallInput(request.first) = CallInput(request.second))
            <=> (locals.first = locals.second))

(***************************************************************************)
(* Properties of the cancellation of get_swap_meta_price (SpecCancel).     *)
(***************************************************************************)
\* the call was cancelled while it waited for the gather of the price tasks
CancelledInFanOut ==
    /\ op = "get_swap_meta_price"
    /\ pc = "end"
    /\ result.kind = "raise"
    /\ result.error = "CancelledError"
    /\ result.message = "gather"

\* C26: once get_swap_meta_price has been cancelled while waiting for its
\* fan-out, none of the tasks it started is running: not a provider price
\* task, not the allowance-probe task, not the decimals task, not the
\* buy-token-price task.
C26_CancelLeavesNoTaskRunning ==
    CancelledInFanOut =>
        /\ \A p \in Providers : prices_tasks[p].state # "running"
        /\ approve_task.state # "running"
        /\ decimals_task.state # "running"
        /\ buy_price_task.state # "running"

(***************************************************************************)
(* Properties of get_crosschain_provider_price (SpecCross).                *)
(***************************************************************************)
CrossCall == op = "get_crosschain_provider_price"

\* the adapter's get_swap_price has been called
CrossAdapterCalled == CrossCall /\ calls.swap_price # <<>>

\* C23: when the adapter requires a gas price and the caller gave none, the
\* base gas price of the source chain has been fetched before the adapter's
\* get_swap_price is called and is the value passed to it; when the caller
\* gave a gas price or the adapter requires none, the gas service is never
\* called.
C23_GasPriceFetchedBeforeTheAdapter ==
    CrossCall =>
        IF is_require_gas_price(request.provider) /\ request.gas_price = 0
        THEN CrossAdapterCalled =>
                /\ calls.base_gas_price = 1
                /\ locals.fetched \in BaseGasPrices
                /\ calls.swap_price = <<locals.fetched>>
        ELSE calls.base_gas_price = 0

\* the gas price was fetched, the adapter was called with it and the call
\* returned
C23_Witness ==
    /\ CrossAdapterCalled
    /\ is_require_gas_price(request.provider)
    /\ request.gas_price = 0
    /\ calls.swap_price = <<locals.fetched>>
    /\ result.kind = "return"

\* the allowance and approve probe of the call has been reached
CrossProbed ==
    /\ CrossCall
    /\ \/ pc \in {"allowance", "approve"}
       \/ locals.allowance # -1

\* C24: the spender of the allowance and approve probe is the adapter's
\* allowance_target when that is not null and otherwise the descriptor's
\* market-order spender of the provider on the source chain; it is bound on
\* every path to the probe; and a returned approve_cost above 0 means the
\* allowance was below the sell amount.
C24_SpenderIsTargetElseDescriptor ==
    /\ CrossProbed =>
          /\ locals.spender # "unbound"
          /\ locals.spender =
                IF locals.allowance_target # NULL
                THEN locals.allowance_target
                ELSE CrossSpenderAddress(request.provider, request.chain_id)
    /\ (CrossCall /\ result.kind = "return") =>
          (result.items[1].approve_cost > 0 =>
               locals.allowance < request.sell_amount)

\* the adapter returned no allowance_target, the descriptor's spender was
\* probed and an approve cost was returned
C24_Witness ==
    /\ CrossCall
    /\ result.kind = "return"
    /\ locals.allowance_target = NULL
    /\ locals.spender = CrossSpenderAddress(request.provider, request.chain_id)
    /\ calls.allowance = 1
    /\ result.items[1].approve_cost > 0

(***************************************************************************)
(* Properties of choose_best_provider (SpecBest).                          *)
(***************************************************************************)
BestCalled ==
    op = "choose_best_provider" /\ pc = "end" /\ Len(CallPrices) > 0

Winner == result.items[1].index

\* C4: the pair choose_best_provider returns has a profit greater than or
\* equal to the profit of every other entry of the mapping.
C4_WinnerHasMaxProfit ==
    BestCalled
        => \A i \in 1..Len(CallPrices) :
              CallExactProfit(Winner) >= CallExactProfit(i)

\* C5: when several providers have the same maximal profit the first of them
\* in the order of the mapping wins, and no provider wins over an earlier one
\* of equal profit.
C5_FirstOfEqualProfitsWins ==
    BestCalled
        => LET maximal == {i \in 1..Len(CallPrices) :
                              \A j \in 1..Len(CallPrices) :
                                  CallExactProfit(i) >= CallExactProfit(j)}
           IN  /\ Cardinality(maximal) >= 2
                     => \A i \in maximal : Winner <= i
               /\ \A i \in 1..Len(CallPrices) :
                     i < Winner => CallExactProfit(i) # CallExactProfit(Winner)

\* C6: the comparison of two profits is exact: the profit of one quote is
\* found greater than that of another exactly when its exact value is.
C6_ComparisonIsExact ==
    op = "choose_best_provider"
        => \A i, j \in 1..Len(CallPrices) :
              DecGreater(CallProfit(i), CallProfit(j))
                  <=> CallExactProfit(i) > CallExactProfit(j)

(***************************************************************************)
(* Property of the adapters' get_swap_price (SpecAdapter).                 *)
(***************************************************************************)
\* C9: the value of a price response is the sell amount of the request when
\* the native token is sold, and 0 otherwise.
C9_ValueIsSellAmountIffNative ==
    (op = "get_swap_price" /\ pc = "end" /\ result.kind = "return")
        => DecEqualsInt(result.items[1].value,
                        IF request.sell_token = NATIVE_TOKEN_ADDRESS
                        THEN request.sell_amount ELSE 0)

(***************************************************************************)
(* Properties of get_gas_prices_eip1559 (SpecFee).                         *)
(***************************************************************************)
FeeReturned ==
    op = "get_gas_prices_eip1559" /\ pc = "end" /\ result.kind = "return"

FeeTiers == {"fast", "instant", "overkill"}

FeeColumn(t) ==
    RewardColumn(request.reward,
                 IF t = "fast" THEN 1 ELSE IF t = "instant" THEN 2 ELSE 3)

C17_FewerRowsStillReported ==
    (op = "get_gas_prices_eip1559" /\ pc = "end")
        => /\ Len(request.reward) \in 1..(FeeHistoryBlocks - 1)
                => /\ result.kind = "return"
                   /\ \A t \in FeeTiers :
                        result.items[1].eip1559[t].max_priority_fee
                           = SumSeq(FeeColumn(t)) \div Len(request.reward)
           /\ Len(request.reward) = 0
                => /\ result.kind = "return"
                   /\ result.items[1].legacy # NoLegacy

(***************************************************************************)
(* Properties of the gas service (SpecGas).                                *)
(***************************************************************************)
\* a call whose body ran: it was not answered from the cache
GasBodyRan == op \in GasFunctions /\ pc = "end" /\ ~gas.hit

C18_ReadTimeoutIsRetried ==
    GasBodyRan
        => LET n    == Len(request.answers)
               last == request.answers[n]
           IN  /\ gas.attempts = n
               /\ last = "ok" <=> result.kind = "return"
               /\ last = "Web3Error" => result.error = "Web3Error"

\* what a function of the gas service computes from the chain at a time
ChainValue(f, chain_id, t) ==
    IF f = "get_base_gas_price"
    THEN w3_gas_price(chain_id, t)
    ELSE IF eip1559(chain_id)
    THEN get_gas_prices_eip1559(w3_fee_history(chain_id, t)).items[1]
    ELSE get_gas_prices_legacy(w3_gas_price(chain_id, t))

\* C19: a call answered from the store makes no chain call; what a call
\* returns was computed from the chain of its own chain id less than
\* GasCacheTtl seconds before, and at the time of the call itself when the
\* chain was called.
C19_StoredResultPerChain ==
    (op \in GasFunctions /\ pc = "end" /\ result.kind = "return")
        => /\ gas.hit => gas.attempts = 0
           /\ ~gas.hit => result.items[1]
                             = ChainValue(op, request.chain_id, gas.now)
           /\ \E t \in 0..gas.now :
                /\ gas.now - t < GasCacheTtl
                /\ result.items[1] = ChainValue(op, request.chain_id, t)

(***************************************************************************)
(* Properties of the aggregation errors (SpecErrors).                      *)
(***************************************************************************)
\* C20: to_http_exception gives every error the status of its owner: 400
\* for balance, allowance, tokens and estimation errors, 409 for liquidity,
\* price, timeout and unspecified provider errors, 417 for validation,
\* parse, provider-not-found and spender-not-found errors.
C20_KindSelectsStatus ==
    (op = "to_http_exception" /\ pc = "end")
        => /\ result.kind = "return"
           /\ result.items[1].status_code =
                CASE request.kind \in {"UserBalanceError", "AllowanceError",
                                       "TokensError", "EstimationError"} -> 400
                  [] request.kind \in {"InsufficientLiquidityError",
                                       "PriceError", "ProviderTimeoutError",
                                       "AggregationProviderError"} -> 409
                  [] request.kind \in {"ValidationFailedError",
                                       "ParseResponseError", "ProviderNotFound",
                                       "SpenderAddressNotFound"} -> 417

====
